---------------------------- MODULE Spec2Model ----------------------------
(***************************************************************************)
(* A model of the sudoers lexer (toke.l) and its include stack.            *)
(*                                                                         *)
(* Spec     : the include machinery (push_include, pop_include,            *)
(*            init_lexer, sudoers_input) driven by a parser that reads     *)
(*            whole lines; a file is a sequence of lines, each an          *)
(*            ordinary line or an include directive.                       *)
(* SpecTerm : the same machine without init_lexer, under weak fairness of  *)
(*            the parser's next-token loop.                                *)
(* SpecLex  : the flex rules, character by character, on one buffer.       *)
(*                                                                         *)
(* Characters are one-character strings; a text (a path, a line, a token)  *)
(* is a sequence of characters.                                            *)
(***************************************************************************)
EXTENDS Integers, Sequences, FiniteSets, TLC

(* ------------------------------ bounds -------------------------------- *)
\* longest main file of a scenario, in lines
MaxLines == 2
\* most entries readdir(3) returns for the include directory
MaxDirEnts == 3
\* nesting depth up to which the expanded text of the files is unfolded
MaxExpand == 8
\* longest text after the command on a scanned line, in characters
MaxTail == 3
\* longest text after the digest keyword on a scanned line, in characters
MaxRun == 2

(* ------------------------- program constants -------------------------- *)
MAX_SUDOERS_DEPTH == 128
SUDOERS_STACK_INCREMENT == 16

(* ------------------------------- texts -------------------------------- *)
\* the byte values strcmp(3) compares, for the characters paths are made of
Ascii ==
  ("." :> 46) @@ ("/" :> 47) @@ ("B" :> 66) @@ ("a" :> 97) @@ ("b" :> 98) @@
  ("c" :> 99) @@ ("d" :> 100) @@ ("e" :> 101) @@ ("f" :> 102) @@
  ("h" :> 104) @@ ("m" :> 109) @@ ("n" :> 110) @@ ("s" :> 115) @@
  ("y" :> 121) @@ ("~" :> 126) @@ ("%" :> 37) @@ ("\"" :> 34)

RECURSIVE strcmp(_, _)
strcmp(s1, s2) ==
  IF s1 = <<>> /\ s2 = <<>> THEN 0
  ELSE IF s1 = <<>> THEN 0 - Ascii[s2[1]]
  ELSE IF s2 = <<>> THEN Ascii[s1[1]]
  ELSE IF s1[1] # s2[1] THEN Ascii[s1[1]] - Ascii[s2[1]]
  ELSE strcmp(Tail(s1), Tail(s2))

\* strchr(s, c) != NULL
strchr(s, c) == \E i \in 1..Len(s) : s[i] = c

\* strrchr(s, c): the index of the last c, 0 when there is none
strrchr(s, c) ==
  LET I == {i \in 1..Len(s) : s[i] = c}
  IN  IF I = {} THEN 0 ELSE CHOOSE i \in I : \A j \in I : j <= i

Last(s) == s[Len(s)]

RECURSIVE Reverse(_)
Reverse(s) == IF s = <<>> THEN <<>> ELSE Append(Reverse(Tail(s)), Head(s))

\* the sequences that list every element of the finite set S once
RECURSIVE Perms(_)
Perms(S) ==
  IF S = {} THEN {<<>>}
  ELSE UNION {{<<x>> \o p : p \in Perms(S \ {x})} : x \in S}

\* the sequences over S of length lo..hi
SeqsOf(S, lo, hi) == UNION {[1..n -> S] : n \in lo..hi}

IsPrefix(s, t) == Len(s) <= Len(t) /\ SubSeq(t, 1, Len(s)) = s

(* --------------------------- the file system -------------------------- *)
pM == <<"/", "m">>                      \* the main sudoers file
pA == <<"/", "a">>
pB == <<"/", "b">>
pN == <<"/", "n">>                      \* does not exist
pY == <<"/", "y">>                      \* includes itself
pD == <<"/", "d">>                      \* the include directory
user_shost == <<"h">>                   \* the short host name, for %h

DirFile(dir, name) == dir \o <<"/">> \o name

\* a line of a file: ordinary text (one token and its newline), or an
\* include directive with its operand as written
LTok == [k |-> "tok", p |-> <<>>]
LInc(p) == [k |-> "inc", p |-> p]
LIncDir(p) == [k |-> "incdir", p |-> p]

\* length in bytes of a line, newline included
LineLen(ln) ==
  CASE ln.k = "tok" -> 2
    [] ln.k = "inc" -> 9 + Len(ln.p) + 1
    [] ln.k = "incdir" -> 12 + Len(ln.p) + 1

\* what readdir(3) may return for pD: a name, and whether stat(2) says it
\* is a regular file
DirPool ==
  { [name |-> <<"a">>, reg |-> TRUE], [name |-> <<"b">>, reg |-> TRUE],
    [name |-> <<"a", "b">>, reg |-> TRUE], [name |-> <<"B">>, reg |-> TRUE],
    [name |-> <<"c", "~">>, reg |-> TRUE],
    [name |-> <<"e", ".", "f">>, reg |-> TRUE],
    [name |-> <<"s">>, reg |-> FALSE] }

SecureStatus ==
  {"SECURE", "MISSING", "BAD_TYPE", "WRONG_OWNER", "WORLD_WRITABLE",
   "GROUP_WRITABLE"}

\* a scenario: the lines of /m, /a and /y, the state of the directory /d
\* (what sudo_secure_dir reports, what opendir/readdir do, the entries) and
\* what open_sudoers does for each path
Scenario(main, acont, ycont, dstat, rd, dents, noopen, keeps) ==
  [main |-> main, acont |-> acont, ycont |-> ycont, dstat |-> dstat, rd |-> rd,
   dents |-> dents, noopen |-> noopen, keeps |-> keeps]

\* the regular files of scenario f and their lines
Lines(f, path) ==
  CASE path = pM -> f.main
    [] path = pA -> f.acont
    [] path = pB -> <<LTok>>
    [] path = pY -> f.ycont
    [] path = DirFile(pD, <<"b">>) -> <<LTok, LInc(<<"/", "b">>), LTok>>
    [] OTHER -> <<LTok>>

Exists(f, path) ==
  \/ path \in {pM, pA, pB, pY}
  \/ \E e \in f.dents : e.reg /\ path = DirFile(pD, e.name)

FileScenarios ==
  { Scenario(m, a, <<>>, "SECURE", "ok", {}, {}, k) :
      m \in SeqsOf({LTok, LInc(<<"a">>), LInc(<<"\"", "/", "b", "\"">>),
                    LInc(pN)}, 1, MaxLines),
      a \in {<<>>, <<LTok>>, <<LTok, LInc(pB), LTok>>, <<LInc(pN)>>},
      k \in {{}, {pA}, {pB}, {pA, pB}} }

DirScenarios ==
  { Scenario(m, <<LTok>>, <<>>, "SECURE", "ok", d, n, k) :
      m \in {<<LIncDir(pD)>>, <<LTok, LIncDir(<<"d">>), LTok>>},
      d \in {x \in SUBSET DirPool : Cardinality(x) <= MaxDirEnts},
      n \in {{}, {DirFile(pD, <<"a">>)},
             {DirFile(pD, <<"a">>), DirFile(pD, <<"b">>),
              DirFile(pD, <<"B">>), DirFile(pD, <<"a", "b">>)}},
      k \in {{}, {DirFile(pD, <<"a">>)}} }

DirStateScenarios ==
  { Scenario(m, <<LTok, LIncDir(pD)>>, <<>>, s, r,
             {[name |-> <<"a">>, reg |-> TRUE]}, {}, {}) :
      m \in {<<LIncDir(pD)>>, <<LTok, LIncDir(pD), LTok>>,
             <<LInc(pA), LIncDir(pD)>>},
      s \in SecureStatus, r \in {"ok", "enoent", "err"} }

CycleScenarios ==
  { Scenario(<<LInc(pY)>>, <<>>, y, "SECURE", "ok", {}, {}, k) :
      y \in {<<LInc(pY)>>, <<LTok, LInc(<<"y">>), LTok>>},
      k \in {{}, {pY}} }

Scenarios ==
  FileScenarios \cup DirScenarios \cup DirStateScenarios \cup CycleScenarios


(* ------------------------------- state -------------------------------- *)
VARIABLES
  fs,           \* the scenario: the files on disk and open_sudoers' answers
  pc,           \* where the parser is: "lex", "push", "done", "fatal", "idle"
  arg,          \* the operand and kind of the include directive just read
  idepth,       \* static size_t idepth
  istacksize,   \* static size_t istacksize
  istack,       \* istack[0 .. idepth-1], as a sequence of frames
  sudoers,      \* char *sudoers: path of the file being parsed
  sudolineno,   \* int sudolineno
  sudolinebuf,  \* struct sudolinebuf sudolinebuf
  keepopen,     \* static bool keepopen
  cur,          \* YY_CURRENT_BUFFER: the handle it reads from
  fh,           \* every FILE the parse has had, by handle number
  tokens,       \* history: the ordinary lines delivered, as <<path, line>>
  pre,          \* history: what was current just before each push not yet undone
  dir,          \* history: the latest directory include
  rdclosed,     \* history: a closed FILE was read
  perr,         \* what the latest push_include reported: "" when nothing
  rc,           \* history: "balanced", or what went wrong with a path's
                \* reference count
  yybuf,        \* the characters sudoers_input has copied to the scanner
  yy_c_buf_p,   \* the scanner's position in yybuf, from 1
  yy_start,     \* the start condition (BEGIN / YY_START)
  yy_at_bol,    \* whether the scanner is at the beginning of a line
  yy_buffer_status, \* of the scanner's buffer: "NORMAL", or "EOF_PENDING"
                \* once sudoers_input has returned 0 for it
  yy_saved,     \* yy_at_bol and yy_buffer_status of the buffers istack holds
  prev_state,   \* static int prev_state
  continued,    \* static bool continued
  sawspace,     \* static bool sawspace
  digest_type,  \* static int digest_type
  sudoerslval,  \* the value of the token being built
  sudoers_strict, \* bool sudoers_strict
  yy_act,       \* the rule yylex has matched and is about to run, its length
  out,          \* history: the tokens yylex has returned
  joined,       \* history: a line continuation has been consumed since the
                \* latest newline token
  handed,       \* history: the texts handed to sudo_regex_compile
  first,        \* history: <<>> during the first parse; then the tokens the
                \* parse before init_lexer had returned, and whether it had
                \* come to the end of the input
  evl_conf,     \* struct eventlog_config, as eventlog_getconf() returns it
  evlog,        \* const struct eventlog *evlog: NULL, or the event
  logline,      \* do_syslog_sudo: char *logline
  p_off,        \* do_syslog_sudo: char *p, as the offset p - logline
  fmt,          \* do_syslog_sudo: const char *fmt
  maxlen,       \* do_syslog_sudo: size_t maxlen
  syslog_pc,    \* where do_syslog_sudo is: "open", "loop", "done"
  syslogged,    \* history: the calls of syslog(3), as format and arguments
  args,         \* eventlog_accept and the like: the function called and the
                \* flags it was given
  flags,        \* eventlog_accept and the like: int flags
  ev_pc,        \* where that function is: "syslog", "logfile", "return"
  ev_ret,       \* its bool ret
  mailed,       \* history: the calls of send_mail
  logfile,      \* the bytes of the log file evl_conf->logpath
  lock,         \* the process that holds the lock on the log file, or 0
  lpc,          \* where each process is in do_logfile_sudo, do_logfile_json
  fp,           \* FILE *fp of each process: open or not, its position, and
                \* what stdio has buffered for it
  sb,           \* struct stat sb of each process: st_size
  json_str,     \* char *json_str of each process
  lf_ret,       \* bool ret of each process
  calls,        \* history: the number of the call each process is in
  opens,        \* history: open_log calls that returned a FILE, per call
  closes,       \* history: close_log calls, per call
  written,      \* history: the records flushed to the log file, in order
  validated,    \* check_user: int validated, as the set of its flags
  mode,         \* check_user: int mode, as the set of its flags
  sudo_mode,    \* sudo_mode, as the set of its flags
  sudo_defs,    \* def_intercept_authenticate, def_authenticate and
                \* def_noninteractive_auth
  sudo_user,    \* whether user_is_exempt(), and whether the user runs the
                \* command as themselves
  closure,      \* struct getpass_closure closure: tstat and cookie
  cu_ret,       \* check_user, check_user_interactive: int ret
  exempt,       \* check_user: bool exempt
  cu_pc,        \* where check_user is: "call", "interactive",
                \* "verify_user", "done", "returned"
  suspended,    \* the password prompt is suspended
  resumed,      \* what the latest getpass_resume returned
  auth_initd,   \* history: sudo_auth_init was called
  how,          \* history: how ret became true before the done label:
                \* "exempt", "self", "ticket", "password", or ""
  approvals,    \* history: what sudo_auth_approval returned
  ts_called,    \* history: the timestamp_ functions called
  updates       \* history: the cookies handed to timestamp_update

incvars ==
  <<fs, pc, arg, idepth, istacksize, istack, sudoers, sudolineno,
    sudolinebuf, keepopen, cur, fh, tokens, pre, dir, rdclosed, perr, rc>>

lexvars ==
  <<yybuf, yy_c_buf_p, yy_start, yy_at_bol, yy_buffer_status, yy_saved,
    prev_state, continued, sawspace,
    digest_type, sudoerslval, sudoers_strict, yy_act, out, joined, handed,
    first>>

\* do_syslog_sudo
sysvars == <<evl_conf, evlog, logline, p_off, fmt, maxlen, syslog_pc, syslogged>>

\* eventlog_accept, eventlog_reject, eventlog_alert, eventlog_exit
evvars == <<args, flags, ev_pc, ev_ret, mailed, logfile>>

\* do_logfile_sudo, do_logfile_json
filevars ==
  <<lock, lpc, fp, sb, json_str, lf_ret, calls, opens, closes, written>>

\* check_user, check_user_interactive, getpass_suspend, getpass_resume
authvars ==
  <<validated, mode, sudo_mode, sudo_defs, sudo_user, closure, cu_ret,
    exempt, cu_pc, suspended, resumed, auth_initd, how, approvals,
    ts_called, updates>>

\* what the sudoers parser does not touch
restvars == <<sysvars, evvars, filevars, authvars>>

\* what do_syslog_sudo does not touch, what eventlog_accept does not, and
\* what do_logfile_sudo and do_logfile_json do not
notsysvars == <<incvars, lexvars, evvars, filevars, authvars>>
notevvars == <<incvars, lexvars, filevars, authvars>>
notfilevars ==
  <<incvars, lexvars, sysvars, args, flags, ev_pc, ev_ret, mailed,
    authvars>>
notauthvars == <<incvars, lexvars, sysvars, evvars, filevars>>

\* the processes that log
Procs == {1, 2}

\* a FILE that is not open
NoFile == [open |-> FALSE, pos |-> 0, buf |-> <<>>]

\* a cookie that is NULL
NoCookie == [null |-> TRUE, locked |-> FALSE]

\* check_user is not running
NoCheck ==
  /\ validated = {}
  /\ mode = {}
  /\ sudo_mode = {}
  /\ sudo_defs = [intercept_authenticate |-> TRUE, authenticate |-> TRUE,
                  noninteractive_auth |-> FALSE]
  /\ sudo_user = [is_exempt |-> FALSE, as_self |-> FALSE]
  /\ closure = [tstat |-> "TS_ERROR", cookie |-> NoCookie]
  /\ cu_ret = -1
  /\ exempt = FALSE
  /\ cu_pc = "returned"
  /\ suspended = FALSE
  /\ resumed = 0
  /\ auth_initd = FALSE
  /\ how = ""
  /\ approvals = <<>>
  /\ ts_called = {}
  /\ updates = <<>>

\* no process is writing the log file
NoWriter ==
  /\ lock = 0
  /\ lpc = [i \in Procs |-> "return"]
  /\ fp = [i \in Procs |-> NoFile]
  /\ sb = [i \in Procs |-> 0]
  /\ json_str = [i \in Procs |-> "NULL"]
  /\ lf_ret = [i \in Procs |-> FALSE]
  /\ calls = [i \in Procs |-> 0]
  /\ opens = [i \in Procs |-> 0]
  /\ closes = [i \in Procs |-> 0]
  /\ written = <<>>

vars == <<incvars, lexvars, restvars>>

\* evlog == NULL
NoEvlog == [null |-> TRUE, submituser |-> <<>>]

\* no event is being logged
NoEvent ==
  /\ evl_conf = [type |-> {}, format |-> "EVLOG_SUDO", syslog_maxlen |-> 0]
  /\ evlog = NoEvlog
  /\ args = [fn |-> "", flags |-> {}]
  /\ flags = {}
  /\ ev_pc = "return"
  /\ ev_ret = TRUE
  /\ mailed = 0
  /\ logfile = <<>>
  /\ NoWriter
  /\ logline = <<>>
  /\ p_off = 0
  /\ fmt = ""
  /\ maxlen = 0
  /\ syslog_pc = "done"
  /\ syslogged = <<>>

RestIdle == NoEvent /\ NoCheck

\* the lexer's statics as the program starts: the start condition is
\* INITIAL, nothing has been scanned or returned
NoCommand == [cmnd |-> <<>>, args |-> <<>>]
NoRule == [line |-> 0, len |-> 0]
LexerAtStart ==
  /\ yy_c_buf_p = 1
  /\ yy_start = "INITIAL"
  /\ yy_at_bol = TRUE
  /\ yy_buffer_status = "NORMAL"
  /\ yy_saved = <<>>
  /\ prev_state = "INITIAL"
  /\ continued = FALSE
  /\ sawspace = FALSE
  /\ digest_type = -1
  /\ sudoerslval = [command |-> NoCommand, string |-> <<>>]
  /\ yy_act = NoRule
  /\ out = <<>>
  /\ joined = FALSE
  /\ handed = <<>>
  /\ first = <<>>

ZeroLine == [buf |-> <<>>, len |-> 0, off |-> 0, toke_start |-> 0, toke_end |-> 0]
NoArg == [path |-> <<>>, isdir |-> FALSE]
NoDir == [log |-> <<>>, depth |-> 0, done |-> FALSE, order |-> <<>>, files |-> <<>>]
MainHandle == [path |-> pM, pos |-> 0, open |-> TRUE, nclose |-> 0, keep |-> FALSE]

(* ------------------------- external collaborators --------------------- *)
\* open_sudoers(path, doedit, &keepopen): whether it returns a FILE, and the
\* value it leaves in keepopen
open_sudoers(f, path, ko) ==
  LET ok == Exists(f, path) /\ path \notin f.noopen
  IN  [ok |-> ok, keepopen |-> IF ok /\ path \in f.keeps THEN TRUE ELSE ko]

\* sudo_secure_dir(path, uid, gid, &sb)
sudo_secure_dir(f, path) ==
  IF path = pD THEN f.dstat
  ELSE IF Exists(f, path) THEN "BAD_TYPE" ELSE "MISSING"

(* ----------------------------- toke.l, part 3 ------------------------- *)
\* mutant: the comparison the right way round, so the list ends up reversed
pl_compare_forward(p1, p2) == strcmp(p1, p2)

pl_compare(p1, p2) == strcmp(p2, p1)

\* qsort(paths, count, sizeof(*paths), pl_compare)
RECURSIVE qsort(_)
qsort(paths) ==
  IF paths = <<>> THEN <<>>
  ELSE LET r == qsort(Tail(paths))
           x == Head(paths)
           k == Cardinality({i \in 1..Len(r) : pl_compare(r[i], x) < 0})
       IN  SubSeq(r, 1, k) \o <<x>> \o SubSeq(r, k + 1, Len(r))

\* the dirent survives read_dir_files' filter on its name
NameOk(name) ==
  ~(Len(name) = 0 \/ Last(name) = "~" \/ strchr(name, "."))

\* read_dir_files: the paths[] array, in the order readdir returned the entries
RECURSIVE read_dir_files(_, _)
read_dir_files(dirpath, dents) ==
  IF dents = <<>> THEN <<>>
  ELSE LET dent == Head(dents)
           rest == read_dir_files(dirpath, Tail(dents))
       IN  IF ~NameOk(dent.name) THEN rest
           ELSE IF ~dent.reg THEN rest
           ELSE <<DirFile(dirpath, dent.name)>> \o rest

\* switch_dir: stack->more after the sorted array was inserted head first
switch_dir(dirpath, dents) == Reverse(qsort(read_dir_files(dirpath, dents)))

\* the %h escapes of expand_include
RECURSIVE SubstHost(_)
SubstHost(o) ==
  IF o = <<>> THEN <<>>
  ELSE IF Len(o) >= 2 /\ o[1] = "%" /\ o[2] = "h"
       THEN user_shost \o SubstHost(SubSeq(o, 3, Len(o)))
  ELSE <<o[1]>> \o SubstHost(Tail(o))

\* expand_include(opath); <<>> stands for NULL
expand_include(opath, sud) ==
  LET quoted == Len(opath) > 1 /\ opath[1] = "\"" /\ Last(opath) = "\""
      o == IF quoted THEN SubSeq(opath, 2, Len(opath) - 1) ELSE opath
      dirlen == IF o # <<>> /\ o[1] # "/" THEN strrchr(sud, "/") ELSE 0
  IN  IF o = <<>> THEN <<>> ELSE SubSeq(sud, 1, dirlen) \o SubstHost(o)

\* mutant: a group-writable directory is accepted
DirIsSecure_lax(status) == status \in {"SECURE", "GROUP_WRITABLE"}

\* push_include: status != SUDO_PATH_SECURE
DirIsSecure(status) == status = "SECURE"

\* push_include: the stack must grow and may not ("too many levels")
TooDeep(d, size) == d >= size /\ d > MAX_SUDOERS_DEPTH

\* the pending entries left once those open_sudoers cannot open are dropped
RECURSIVE SkipUnopenable(_, _, _)
SkipUnopenable(f, more, ko) ==
  IF more = <<>> THEN <<>>
  ELSE IF open_sudoers(f, Head(more), ko).ok THEN more
  ELSE SkipUnopenable(f, Tail(more), ko)

\* mutant: the line number and line buffer are saved after they were reset
PushedFrame_reset(more, ko) ==
  [path |-> sudoers, line |-> ZeroLine, bs |-> cur, more |-> more,
   lineno |-> 1, keepopen |-> ko]

\* the frame push_include stores in istack[idepth]
PushedFrame(more, ko) ==
  [path |-> sudoers, line |-> sudolinebuf, bs |-> cur, more |-> more,
   lineno |-> sudolineno, keepopen |-> ko]

\* mutant: every return of push_include that pushes nothing reports success
PushReturns_alwaystrue(ok, size, msg) ==
  /\ pc' = "lex"
  /\ perr' = msg
  /\ istacksize' = size
  /\ arg' = NoArg
  /\ UNCHANGED <<fs, idepth, istack, sudoers, sudolineno, sudolinebuf,
                 keepopen, cur, fh, tokens, pre, rdclosed>>

\* push_include returns without pushing; so far only istacksize may have changed
PushReturns(ok, size, msg) ==
  /\ pc' = IF ok THEN "lex" ELSE "fatal"
  /\ perr' = msg
  /\ istacksize' = size
  /\ arg' = NoArg
  /\ UNCHANGED <<fs, idepth, istack, sudoers, sudolineno, sudolinebuf,
                 keepopen, cur, fh, tokens, pre, rdclosed>>

\* push_include from "Push the old (current) file and open the new one."
PushSwitch(path, more, ko, size) ==
  /\ istack' = Append(istack, PushedFrame(more, ko))
  /\ idepth' = idepth + 1
  /\ istacksize' = size
  /\ sudolineno' = 1
  /\ sudoers' = path
  /\ fh' = Append(fh, [path |-> path, pos |-> 0, open |-> TRUE, nclose |-> 0,
                       keep |-> ko])
  /\ cur' = Len(fh) + 1
  /\ sudolinebuf' = ZeroLine
  /\ keepopen' = ko
  /\ pre' = Append(pre, [path |-> sudoers, lineno |-> sudolineno,
                         line |-> sudolinebuf, idepth |-> idepth])
  /\ pc' = "lex"
  /\ perr' = ""
  /\ arg' = NoArg
  /\ UNCHANGED <<fs, tokens, rdclosed>>

\* push_include(opath, isdir). mem1, mem2: the two allocations succeed;
\* order: the order readdir returns the entries in
push_include(opath, isdir, mem1, mem2, order) ==
  LET path == IF mem1 THEN expand_include(opath, sudoers) ELSE <<>>
      grow == idepth >= istacksize
      size == IF grow THEN istacksize + SUDOERS_STACK_INCREMENT ELSE istacksize
  IN
  IF path = <<>>
  THEN PushReturns(FALSE, istacksize,
                   IF mem1 THEN "" ELSE "unable to allocate memory")
       /\ UNCHANGED dir
  ELSE IF TooDeep(idepth, istacksize)
       THEN PushReturns(FALSE, istacksize, "too many levels of includes")
            /\ UNCHANGED dir
  ELSE IF grow /\ ~mem2
       THEN PushReturns(FALSE, size, "unable to allocate memory") /\ UNCHANGED dir
  ELSE IF isdir THEN
    IF ~DirIsSecure(sudo_secure_dir(fs, path))
    THEN PushReturns(TRUE, size, sudo_secure_dir(fs, path)) /\ UNCHANGED dir
    ELSE IF fs.rd = "enoent" THEN PushReturns(TRUE, size, "") /\ UNCHANGED dir
    ELSE IF fs.rd # "ok"
         THEN PushReturns(FALSE, size, "readdir") /\ UNCHANGED dir
    ELSE
      LET files == read_dir_files(path, order)
          more == switch_dir(path, order)
          left == SkipUnopenable(fs, more, keepopen)
      IN  IF files = <<>> \/ left = <<>>
          THEN /\ PushReturns(TRUE, size, "")
               /\ dir' = [log |-> <<>>, depth |-> 0, done |-> files # <<>>,
                          order |-> order, files |-> files]
          ELSE /\ PushSwitch(Head(left), Tail(left),
                             open_sudoers(fs, Head(left), keepopen).keepopen, size)
               /\ dir' = [log |-> <<Head(left)>>, depth |-> idepth + 1,
                          done |-> FALSE, order |-> order, files |-> files]
  ELSE
    LET o == open_sudoers(fs, path, keepopen)
    IN  IF ~o.ok THEN PushReturns(FALSE, size, "open") /\ UNCHANGED dir
        ELSE PushSwitch(path, <<>>, o.keepopen, size) /\ UNCHANGED dir

\* fclose(3) of handle h
Fclose(files, h) ==
  [files EXCEPT ![h].open = FALSE, ![h].nclose = IF @ < 2 THEN @ + 1 ELSE @]

\* what pop_include does when no pending entry can be opened
PopToParent(closed, top, depth) ==
  /\ idepth' = depth
  /\ cur' = top.bs
  /\ sudolinebuf' = top.line
  /\ sudoers' = top.path
  /\ sudolineno' = top.lineno
  /\ keepopen' = top.keepopen
  /\ fh' = closed
  /\ istack' = SubSeq(istack, 1, depth)
  /\ pre' = SubSeq(pre, 1, depth)
  /\ dir' = IF dir.depth = idepth THEN [dir EXCEPT !.done = TRUE, !.depth = 0]
            ELSE dir

\* what pop_include does when it can open the pending entry Head(left)
PopToNext(closed, left) ==
  /\ sudolinebuf' = [sudolinebuf EXCEPT !.len = 0, !.off = 0,
                                        !.toke_start = 0, !.toke_end = 0]
  /\ sudoers' = Head(left)
  /\ sudolineno' = 1
  /\ keepopen' = open_sudoers(fs, Head(left), keepopen).keepopen
  /\ fh' = Append(closed, [path |-> Head(left), pos |-> 0, open |-> TRUE,
                           nclose |-> 0, keep |-> keepopen'])
  /\ cur' = Len(fh) + 1
  /\ istack' = [istack EXCEPT ![idepth].more = Tail(left)]
  /\ dir' = [dir EXCEPT !.log = Append(@, Head(left))]
  /\ UNCHANGED <<idepth, pre>>

\* mutant: the pending entries of the directory are forgotten
pop_include_skipdir ==
  PopToParent(IF ~keepopen THEN Fclose(fh, cur) ELSE fh, istack[idepth],
              idepth - 1)

\* mutant: the frame is restored but idepth is not decremented
pop_include_nodec ==
  LET closed == IF ~keepopen THEN Fclose(fh, cur) ELSE fh
      top == istack[idepth]
      left == SkipUnopenable(fs, top.more, keepopen)
  IN  IF left # <<>> THEN PopToNext(closed, left)
      ELSE PopToParent(closed, top, idepth)

\* mutant: the first pending entry is tried and no other
pop_include_giveup ==
  LET closed == IF ~keepopen THEN Fclose(fh, cur) ELSE fh
      top == istack[idepth]
  IN  IF top.more # <<>> /\ open_sudoers(fs, Head(top.more), keepopen).ok
      THEN PopToNext(closed, top.more)
      ELSE PopToParent(closed, top, idepth - 1)

\* pop_include, the case idepth > 0
pop_include ==
  LET closed == IF ~keepopen THEN Fclose(fh, cur) ELSE fh
      top == istack[idepth]
      left == SkipUnopenable(fs, top.more, keepopen)
  IN  IF left # <<>> THEN PopToNext(closed, left)
      ELSE PopToParent(closed, top, idepth - 1)

(* ----------------------- reference-counted paths ---------------------- *)
\* The strings sudo_rcstr_alloc has made are named <<kind, i, j>>.  In a
\* record h, h.cnt[id] is the reference count of string id, 0 once it is
\* freed, and h.twice is set when a freed string is released again; h.cur,
\* h.frames and h.more say which string sudoers, istack[i].path and the
\* entries of istack[i].more point to.
sudo_rcstr_alloc(h, id) == [h EXCEPT !.cnt = (id :> 1) @@ @]

sudo_rcstr_delref(h, id) ==
  IF h.cnt[id] = 0 THEN [h EXCEPT !.twice = TRUE]
  ELSE [h EXCEPT !.cnt[id] = @ - 1]

\* a call begins: every pointer holds a string of its own, with one
\* reference
RcBefore ==
  LET pending == UNION {{<<"more", i, j>> : j \in 1..Len(istack[i].more)} :
                          i \in 1..idepth}
      ids == {<<"sudoers", 0, 0>>} \cup {<<"path", i, 0>> : i \in 1..idepth}
               \cup pending
  IN  [cnt |-> [id \in ids |-> 1],
       twice |-> FALSE,
       cur |-> <<"sudoers", 0, 0>>,
       frames |-> [i \in 1..idepth |-> <<"path", i, 0>>],
       more |-> [i \in 1..idepth |->
                   [j \in 1..Len(istack[i].more) |-> <<"more", i, j>>]]]

\* how many pointers hold string id
RcOwners(h, id) ==
  (IF h.cur = id THEN 1 ELSE 0)
    + Cardinality({i \in DOMAIN h.frames : h.frames[i] = id})
    + Cardinality({x \in UNION {{<<i, j>> : j \in DOMAIN h.more[i]} :
                                  i \in DOMAIN h.more} :
                     h.more[x[1]][x[2]] = id})

\* a call ends: what is wrong with the reference counts, if anything
RcVerdict(h) ==
  IF h.twice THEN "released twice"
  ELSE IF \E id \in DOMAIN h.cnt : h.cnt[id] < RcOwners(h, id)
       THEN "freed while referenced"
  ELSE IF \E id \in DOMAIN h.cnt : h.cnt[id] > RcOwners(h, id)
       THEN "not released"
  ELSE "balanced"

\* read_dir_files: a string is allocated for every entry whose name passes
\* and released when the entry is no regular file; entry k gets <<"new", k, 0>>
RECURSIVE read_dir_files_rc(_, _, _)
read_dir_files_rc(h, order, k) ==
  IF k > Len(order) THEN h
  ELSE IF ~NameOk(order[k].name) THEN read_dir_files_rc(h, order, k + 1)
  ELSE LET id == <<"new", k, 0>>
           h1 == sudo_rcstr_alloc(h, id)
       IN  read_dir_files_rc(IF order[k].reg THEN h1
                             ELSE sudo_rcstr_delref(h1, id), order, k + 1)

\* read_dir_files from "bad:": the strings collected so far are released
RECURSIVE read_dir_files_bad_rc(_, _, _)
read_dir_files_bad_rc(h, order, k) ==
  IF k > Len(order) THEN h
  ELSE IF NameOk(order[k].name) /\ order[k].reg
       THEN read_dir_files_bad_rc(sudo_rcstr_delref(h, <<"new", k, 0>>), order,
                                  k + 1)
  ELSE read_dir_files_bad_rc(h, order, k + 1)

\* the strings of the pending list switch_dir has built
PendingIds(dirpath, order) ==
  LET more == switch_dir(dirpath, order)
  IN  [n \in 1..Len(more) |->
         <<"new", CHOOSE k \in 1..Len(order) :
                    /\ NameOk(order[k].name) /\ order[k].reg
                    /\ DirFile(dirpath, order[k].name) = more[n], 0>>]

\* push_include's do loop: path is released and the next entry is taken off
\* the list, until an entry opens or none is left (path <<>>)
RECURSIVE FirstEntry_rc(_, _, _, _)
FirstEntry_rc(h, path, ids, paths) ==
  LET h1 == sudo_rcstr_delref(h, path)
  IN  IF ids = <<>> THEN [h |-> h1, path |-> <<>>, ids |-> <<>>]
      ELSE IF open_sudoers(fs, Head(paths), keepopen).ok
           THEN [h |-> h1, path |-> Head(ids), ids |-> Tail(ids)]
      ELSE FirstEntry_rc(h1, Head(ids), Tail(ids), Tail(paths))

\* push_include from "Push the old (current) file and open the new one.":
\* the slot gets sudoers' string and the pending list, sudoers gets path
PushSwitch_rc(h, path, ids) ==
  [h EXCEPT !.frames = Append(@, h.cur), !.cur = path, !.more = Append(@, ids)]

\* push_include: the strings and who holds them when it returns
push_include_rc(opath, isdir, mem1, mem2, order) ==
  LET path == IF mem1 THEN expand_include(opath, sudoers) ELSE <<>>
      p == <<"new", 0, 0>>
      h1 == sudo_rcstr_alloc(RcBefore, p)
  IN
  IF path = <<>> THEN RcBefore
  ELSE IF TooDeep(idepth, istacksize) \/ (idepth >= istacksize /\ ~mem2)
       THEN sudo_rcstr_delref(h1, p)
  ELSE IF isdir THEN
    IF ~DirIsSecure(sudo_secure_dir(fs, path)) \/ fs.rd = "enoent"
    THEN sudo_rcstr_delref(h1, p)
    ELSE IF fs.rd # "ok"
         THEN sudo_rcstr_delref(
                read_dir_files_bad_rc(read_dir_files_rc(h1, order, 1), order, 1),
                p)
    ELSE
      LET h2 == read_dir_files_rc(h1, order, 1)
          more == switch_dir(path, order)
      IN  IF more = <<>> THEN sudo_rcstr_delref(h2, p)
          ELSE LET r == FirstEntry_rc(h2, p, PendingIds(path, order), more)
               IN  IF r.path = <<>> THEN r.h
                   ELSE PushSwitch_rc(r.h, r.path, r.ids)
  ELSE IF ~open_sudoers(fs, path, keepopen).ok THEN sudo_rcstr_delref(h1, p)
       ELSE PushSwitch_rc(h1, p, <<>>)

\* mutant: the string of the file that ends is not released
PopToParent_rc_keep(h) ==
  [h EXCEPT !.cur = h.frames[idepth],
            !.frames = SubSeq(@, 1, idepth - 1),
            !.more = SubSeq(@, 1, idepth - 1)]

\* pop_include, "If no path list, just pop the last dir on the stack.":
\* sudoers' string is released and sudoers gets the string of the slot
PopToParent_rc(h) ==
  [sudo_rcstr_delref(h, h.cur) EXCEPT !.cur = h.frames[idepth],
                                      !.frames = SubSeq(@, 1, idepth - 1),
                                      !.more = SubSeq(@, 1, idepth - 1)]

\* pop_include's while loop: an entry that does not open is released; for
\* the first that opens sudoers' string is released and sudoers gets the
\* entry's
RECURSIVE NextEntry_rc(_, _, _)
NextEntry_rc(h, ids, paths) ==
  IF ids = <<>> THEN PopToParent_rc([h EXCEPT !.more[idepth] = <<>>])
  ELSE IF open_sudoers(fs, Head(paths), keepopen).ok
       THEN [sudo_rcstr_delref(h, h.cur) EXCEPT !.cur = Head(ids),
                                                !.more[idepth] = Tail(ids)]
  ELSE NextEntry_rc(sudo_rcstr_delref(h, Head(ids)), Tail(ids), Tail(paths))

\* pop_include, the case idepth > 0
pop_include_rc ==
  NextEntry_rc(RcBefore, RcBefore.more[idepth], istack[idepth].more)

\* init_lexer: the pending entries and the path of every slot are released
init_lexer_rc ==
  LET h == RcBefore
      gone == {h.frames[i] : i \in 1..idepth}
                \cup UNION {{h.more[i][j] : j \in DOMAIN h.more[i]} :
                              i \in 1..idepth}
  IN  [h EXCEPT !.cnt = [id \in DOMAIN h.cnt |->
                           IF id \in gone /\ h.cnt[id] > 0 THEN h.cnt[id] - 1
                           ELSE h.cnt[id]],
                !.twice = \E id \in gone : h.cnt[id] = 0,
                !.frames = <<>>,
                !.more = <<>>]

(* ---------------------- the parser's next-token loop ------------------ *)
\* sudoers_input refills the line buffer and the scanner returns the tokens
\* of that line up to and including its newline
ReadLine ==
  /\ pc = "lex"
  /\ fh[cur].pos < Len(Lines(fs, fh[cur].path))
  /\ LET n == fh[cur].pos + 1
         ln == Lines(fs, fh[cur].path)[n]
     IN  /\ sudolinebuf' = [buf |-> <<fh[cur].path, n>>, len |-> LineLen(ln),
                            off |-> LineLen(ln), toke_start |-> LineLen(ln) - 1,
                            toke_end |-> LineLen(ln)]
         /\ fh' = [fh EXCEPT ![cur].pos = n]
         /\ sudolineno' = sudolineno + 1
         /\ rdclosed' = (rdclosed \/ ~fh[cur].open)
         /\ IF ln.k = "tok"
            THEN /\ tokens' = Append(tokens, <<fh[cur].path, n>>)
                 /\ UNCHANGED <<pc, arg>>
            ELSE /\ pc' = "push"
                 /\ arg' = [path |-> ln.p, isdir |-> ln.k = "incdir"]
                 /\ UNCHANGED tokens
  /\ UNCHANGED <<fs, idepth, istacksize, istack, sudoers, keepopen, cur, pre,
                 dir, perr, rc>>
  /\ UNCHANGED lexvars
  /\ UNCHANGED restvars

\* the lexer's variables that a switch of the scanner's buffer leaves alone
scanvars ==
  <<yybuf, yy_c_buf_p, yy_start, prev_state, continued, sawspace, digest_type,
    sudoerslval, sudoers_strict, yy_act, out, joined, handed, first>>

\* push_include: sudoers_switch_to_buffer(sudoers_create_buffer(fp,
\* YY_BUF_SIZE)) when it has opened a file; the scanner keeps what it knows
\* of the old buffer, of which it has scanned every character, and starts
\* the new one at the beginning of a line
yy_switch_pushed ==
  IF idepth' > idepth
  THEN /\ yy_saved' = Append(yy_saved, [yy_at_bol |-> yy_at_bol,
                                        yy_buffer_status |-> yy_buffer_status])
       /\ yy_at_bol' = TRUE
       /\ yy_buffer_status' = "NORMAL"
  ELSE UNCHANGED <<yy_at_bol, yy_buffer_status, yy_saved>>

\* pop_include: sudoers_delete_buffer(YY_CURRENT_BUFFER), then
\* sudoers_switch_to_buffer of a new buffer for the next entry of the
\* directory, or of the buffer of the frame that is popped
yy_switch_popped ==
  IF idepth' < idepth
  THEN /\ yy_at_bol' = yy_saved[Len(yy_saved)].yy_at_bol
       /\ yy_buffer_status' = yy_saved[Len(yy_saved)].yy_buffer_status
       /\ yy_saved' = SubSeq(yy_saved, 1, Len(yy_saved) - 1)
  ELSE /\ yy_at_bol' = TRUE
       /\ yy_buffer_status' = "NORMAL"
       /\ UNCHANGED yy_saved

\* the call of push_include(arg.path, arg.isdir)
CallsPush ==
  /\ \E mem1, mem2 \in BOOLEAN, order \in Perms(fs.dents) :
       /\ push_include(arg.path, arg.isdir, mem1, mem2, order)
       /\ \E h \in {push_include_rc(arg.path, arg.isdir, mem1, mem2, order)} :
            rc' = IF rc # "balanced" THEN rc ELSE RcVerdict(h)
  /\ yy_switch_pushed
  /\ UNCHANGED scanvars
  /\ UNCHANGED restvars

\* the parser has reduced an include line and calls push_include
DoPush == pc = "push" /\ CallsPush

\* <*><<EOF>>: pop_include, and yyterminate when it returns false
AtEOF ==
  /\ pc = "lex"
  /\ fh[cur].pos = Len(Lines(fs, fh[cur].path))
  /\ rdclosed' = (rdclosed \/ ~fh[cur].open)
  /\ IF idepth = 0
     THEN /\ pc' = "done"
          /\ UNCHANGED <<idepth, istack, sudoers, sudolineno, sudolinebuf,
                         keepopen, cur, fh, pre, dir, rc>>
     ELSE /\ pop_include
          /\ \E h \in {pop_include_rc} :
               rc' = IF rc # "balanced" THEN rc ELSE RcVerdict(h)
          /\ UNCHANGED pc
  /\ IF idepth = 0 THEN UNCHANGED <<yy_at_bol, yy_buffer_status, yy_saved>>
     ELSE yy_switch_popped
  /\ UNCHANGED <<fs, arg, istacksize, tokens, perr>>
  /\ UNCHANGED scanvars
  /\ UNCHANGED restvars

\* the scanner has returned its last token: the <<EOF>> rule has found the
\* include stack empty
RanToEnd ==
  /\ pc = "done"
  /\ idepth = 0
  /\ yy_buffer_status = "EOF_PENDING"
  /\ yy_c_buf_p > Len(yybuf)

\* mutant: init_lexer without BEGIN INITIAL
InitLexer_nobegin ==
  /\ pc # "idle"
  /\ yy_act = NoRule
  /\ first' = <<[toks |-> out, whole |-> RanToEnd]>>
  /\ fh' = [h \in DOMAIN fh |->
              IF \E j \in 2..idepth : istack[j].bs = h /\ ~istack[j].keepopen
              THEN Fclose(fh, h)[h]
              ELSE fh[h]]
  /\ istack' = <<>>
  /\ istacksize' = 0
  /\ idepth' = 0
  /\ sudolinebuf' = ZeroLine
  /\ sudolineno' = 1
  /\ keepopen' = FALSE
  /\ pc' = "idle"
  /\ arg' = NoArg
  /\ pre' = <<>>
  /\ \E h \in {init_lexer_rc} :
       rc' = IF rc # "balanced" THEN rc ELSE RcVerdict(h)
  /\ sawspace' = FALSE
  /\ continued' = FALSE
  /\ digest_type' = -1
  /\ prev_state' = "INITIAL"
  /\ UNCHANGED yy_start
  /\ UNCHANGED <<fs, sudoers, cur, tokens, dir, rdclosed, perr>>
  /\ joined' = FALSE
  /\ yy_saved' = <<>>
  /\ UNCHANGED <<yybuf, yy_c_buf_p, yy_at_bol, yy_buffer_status, sudoerslval,
                 sudoers_strict, yy_act, out, handed>>
  /\ UNCHANGED restvars

\* init_lexer, called between two calls of yylex
InitLexer ==
  /\ pc # "idle"
  /\ yy_act = NoRule
  /\ first' = <<[toks |-> out, whole |-> RanToEnd]>>
  /\ fh' = [h \in DOMAIN fh |->
              IF \E j \in 2..idepth : istack[j].bs = h /\ ~istack[j].keepopen
              THEN Fclose(fh, h)[h]
              ELSE fh[h]]
  /\ istack' = <<>>
  /\ istacksize' = 0
  /\ idepth' = 0
  /\ sudolinebuf' = ZeroLine
  /\ sudolineno' = 1
  /\ keepopen' = FALSE
  /\ pc' = "idle"
  /\ arg' = NoArg
  /\ pre' = <<>>
  /\ \E h \in {init_lexer_rc} :
       rc' = IF rc # "balanced" THEN rc ELSE RcVerdict(h)
  /\ sawspace' = FALSE
  /\ continued' = FALSE
  /\ digest_type' = -1
  /\ prev_state' = "INITIAL"
  /\ yy_start' = "INITIAL"
  /\ UNCHANGED <<fs, sudoers, cur, tokens, dir, rdclosed, perr>>
  /\ joined' = FALSE
  /\ yy_saved' = <<>>
  /\ UNCHANGED <<yybuf, yy_c_buf_p, yy_at_bol, yy_buffer_status, sudoerslval,
                 sudoers_strict, yy_act, out, handed>>
  /\ UNCHANGED restvars

\* the caller opens the main file again, has the scanner's buffer start
\* afresh on it (sudoersrestart) and parses it
Restart ==
  /\ pc = "idle"
  /\ pc' = "lex"
  /\ sudoers' = pM
  /\ fh' = <<MainHandle>>
  /\ cur' = 1
  /\ tokens' = <<>>
  /\ dir' = NoDir
  /\ rdclosed' = FALSE
  /\ perr' = ""
  /\ yybuf' = <<>>
  /\ yy_c_buf_p' = 1
  /\ yy_at_bol' = TRUE
  /\ yy_buffer_status' = "NORMAL"
  /\ out' = <<>>
  /\ handed' = <<>>
  /\ UNCHANGED <<fs, arg, idepth, istacksize, istack, sudolineno, sudolinebuf,
                 keepopen, pre, rc>>
  /\ UNCHANGED <<yy_start, yy_saved, prev_state, continued, sawspace,
                 digest_type, sudoerslval, sudoers_strict, yy_act, joined,
                 first>>
  /\ UNCHANGED restvars

Init ==
  /\ fs \in Scenarios
  /\ pc = "lex"
  /\ arg = NoArg
  /\ idepth = 0
  /\ istacksize = 0
  /\ istack = <<>>
  /\ sudoers = pM
  /\ sudolineno = 1
  /\ sudolinebuf = ZeroLine
  /\ keepopen = FALSE
  /\ cur = 1
  /\ fh = <<MainHandle>>
  /\ tokens = <<>>
  /\ pre = <<>>
  /\ dir = NoDir
  /\ rdclosed = FALSE
  /\ perr = ""
  /\ rc = "balanced"
  /\ LexerAtStart
  /\ yybuf = <<>>
  /\ sudoers_strict = FALSE
  /\ RestIdle

Next == ReadLine \/ DoPush \/ AtEOF \/ InitLexer \/ Restart

Spec == Init /\ [][Next]_vars


\* the parser's loop alone: no init_lexer; the parser keeps asking for tokens
NextParse == ReadLine \/ DoPush \/ AtEOF

SpecTerm == Init /\ [][NextParse]_vars /\ WF_vars(NextParse)

(* ============================ the scanner ============================= *)

(* ----------------------------- characters ----------------------------- *)
SP == " "
TAB == "\t"
CR == "\r"
LF == "\n"
NUL == "NUL"                            \* the byte 0
BS == "\\"
DQ == "\""

blank == {SP, TAB}
space == {SP, TAB, LF, CR}
digit == {"0", "1", "2", "3", "4", "5", "6", "7", "8", "9"}
upper ==
  {"A", "B", "C", "D", "E", "F", "G", "H", "I", "J", "K", "L", "M", "N", "O",
   "P", "Q", "R", "S", "T", "U", "V", "W", "X", "Y", "Z"}
lower ==
  {"a", "b", "c", "d", "e", "f", "g", "h", "i", "j", "k", "l", "m", "n", "o",
   "p", "q", "r", "s", "t", "u", "v", "w", "x", "y", "z"}
xdigit == digit \cup {"A", "B", "C", "D", "E", "F", "a", "b", "c", "d", "e", "f"}

(* ------------------------ flex regular expressions -------------------- *)
\* [...]            [^...]               .  (anything but a newline)
In(S) == <<"in", S>>
NotIn(S) == <<"notin", S>>
Dot == <<"notin", {LF}>>
Eps == <<"eps">>
Cat(r1, r2) == <<"cat", r1, r2>>
Cat3(r1, r2, r3) == Cat(r1, Cat(r2, r3))
Alt(r1, r2) == <<"alt", r1, r2>>
Star(r) == <<"star", r>>
Plus(r) == Cat(r, Star(r))
Opt(r) == Alt(r, Eps)

\* r{lo,hi}
Rep(r, lo, hi) == <<"rep", r, lo, hi>>

\* a literal text
RECURSIVE Lit(_)
Lit(s) == IF s = <<>> THEN Eps ELSE Cat(In({Head(s)}), Lit(Tail(s)))

\* After(r, s, P): the positions of s at which a match of r can end when it
\* starts at a position of P (a position is the index of the next character)
RECURSIVE After(_, _, _)
RECURSIVE Closure(_, _, _, _)
RECURSIVE Repeat(_, _, _, _, _)
After(r, s, P) ==
  CASE P = {} -> {}
    [] r[1] = "in" ->
         {p + 1 : p \in {q \in P : q <= Len(s) /\ s[q] \in r[2]}}
    [] r[1] = "notin" ->
         {p + 1 : p \in {q \in P : q <= Len(s) /\ s[q] \notin r[2]}}
    [] r[1] = "eps" -> P
    [] r[1] = "cat" -> After(r[3], s, After(r[2], s, P))
    [] r[1] = "alt" -> After(r[2], s, P) \cup After(r[3], s, P)
    [] r[1] = "star" -> Closure(r[2], s, P, P)
    [] r[1] = "rep" -> Repeat(r[2], s, P, r[3], r[4])

Closure(r, s, F, A) ==
  LET N == After(r, s, F) \ A
  IN  IF N = {} THEN A ELSE Closure(r, s, N, A \cup N)

Repeat(r, s, P, lo, hi) ==
  IF hi = 0 \/ P = {} THEN P
  ELSE IF lo > 0 THEN Repeat(r, s, After(r, s, P), lo - 1, hi - 1)
  ELSE P \cup Repeat(r, s, After(r, s, P), 0, hi - 1)

\* Open(r, s, P): a match of r that starts at a position of P can take every
\* character up to the end of s and then wants one more: the scanner's
\* automaton has a transition out of the state it is in at the end of s
RECURSIVE Open(_, _, _)
RECURSIVE OpenRep(_, _, _, _)
Open(r, s, P) ==
  CASE P = {} -> FALSE
    [] r[1] \in {"in", "notin"} -> Len(s) + 1 \in P
    [] r[1] = "eps" -> FALSE
    [] r[1] = "cat" -> Open(r[2], s, P) \/ Open(r[3], s, After(r[2], s, P))
    [] r[1] = "alt" -> Open(r[2], s, P) \/ Open(r[3], s, P)
    [] r[1] = "star" -> Open(r[2], s, Closure(r[2], s, P, P))
    [] r[1] = "rep" -> OpenRep(r[2], s, P, r[4])

OpenRep(r, s, P, hi) ==
  IF hi = 0 \/ P = {} THEN FALSE
  ELSE Open(r, s, P) \/ OpenRep(r, s, After(r, s, P), hi - 1)

\* the length of the longest match of r in s at position p, 0 when there is
\* none (no rule of the scanner matches the empty text)
MatchLen(r, s, p) ==
  LET E == After(r, s, {p}) \ {p}
  IN  IF E = {} THEN 0 ELSE (CHOOSE e \in E : \A x \in E : x <= e) - p

(* ---------------------- the definitions of toke.l --------------------- *)
HEX16 == Rep(In(xdigit), 1, 4)
OCTET ==
  Alt(Cat(Opt(In({"1"})), Rep(In(digit), 1, 2)),
      Alt(Cat3(In({"2"}), In({"0", "1", "2", "3", "4"}), In(digit)),
          Cat3(In({"2"}), In({"5"}), In({"0", "1", "2", "3", "4", "5"}))))
IPV4ADDR == Cat(OCTET, Rep(Cat(In({"."}), OCTET), 3, 3))
IPV6ADDR ==
  Alt(Cat(Rep(Cat(Opt(HEX16), In({":"})), 2, 7), Opt(HEX16)),
      Cat3(Rep(Cat(Opt(HEX16), In({":"})), 2, 6), In({":"}), IPV4ADDR))
WORD ==
  Plus(Alt(NotIn({"#", ">", "!", "=", ":", ",", "(", ")", SP, TAB, CR, LF, BS,
                  "\""}),
           Cat(In({BS}), NotIn({TAB, LF}))))
ID == Cat3(In({"#"}), Opt(In({"-"})), Plus(In(digit)))
PATH ==
  Cat(In({"/"}),
      Plus(Alt(Cat(In({BS}), In({",", ":", "=", SP, TAB, "#"})),
               NotIn({",", ":", "=", BS, SP, TAB, CR, LF, "#"}))))
REGEX ==
  Cat3(In({"^"}),
       Star(Alt(NotIn({"#", CR, LF, "$"}), Cat(In({BS}), In({"#", "$"})))),
       In({"$"}))
ENVAR ==
  Cat(Alt(NotIn({"#", "!", "=", ",", SP, TAB, CR, LF, BS, DQ}),
          Cat(In({BS}), NotIn({CR, LF}))),
      Star(Alt(NotIn({"#", "=", ",", SP, TAB, CR, LF, BS, DQ}),
               Cat(In({BS}), NotIn({CR, LF})))))
DEFVAR == Plus(In(lower \cup {"_"}))


\* mutant: a backslash never takes the '"' after it along
STRBODY_nopair == Plus(NotIn({DQ, CR, LF, BS}))

\* ([^\"\r\n\\]|\\\")+, the text of a string
STRBODY == Plus(Alt(NotIn({DQ, CR, LF, BS}), Lit(<<BS, DQ>>)))

\* two keywords
Defaults == <<"D", "e", "f", "a", "u", "l", "t", "s">>
Include == <<"@", "i", "n", "c", "l", "u", "d", "e">>

(* ------------------------------ the rules ----------------------------- *)
\* A rule is named by the line of toke.l it starts on.  These are the rules
\* that can match somewhere in the scanned lines; every other rule needs a
\* character or a word that no scanned line has (a '>' or '.', a digit
\* after a dot,
\* "CHROOT", a tag other than "NOPASSWD").
RuleLines ==
  {1012, 1017, 1019, 1028, 1034, 1039, 1049, 1056, 1065, 1071, 1110, 1116,
   1124, 1132, 1140, 1147, 1163, 1170, 1181, 1195, 1211, 1226, 1248, 1260,
   1272, 1288, 1304, 1345, 1372, 1454, 1463, 1471, 1493, 1517, 1538, 1595,
   1603, 1612, 1619, 1626, 1633, 1640, 1647, 1655, 1669, 1682, 1689, 1698,
   1707, 1715, 1720, 1725, 1730, 1735, 1740, 1747, 1766, 1770, 1776, 1791}

Pattern(line) ==
  CASE line = 1012 -> Cat3(Star(In(blank)), In({","}), Star(In(blank)))
    [] line = 1017 -> Plus(In(blank))
    [] line = 1019 -> DEFVAR
    [] line = 1028 -> In({","})
    [] line = 1034 -> In({"="})
    [] line = 1039 -> Lit(<<"+", "=">>)
    [] line = 1049 -> In({DQ})
    [] line = 1056 -> ENVAR
    [] line = 1065 ->
         Cat(Cat3(In({BS}), Star(In(blank)), Cat(Opt(In({CR})), In({LF}))),
             Star(In(blank)))
    [] line = 1071 -> In({DQ})
    [] line = 1110 -> In({BS})
    [] line = 1116 -> STRBODY
    [] line = 1124 -> Cat(In({BS}), In({"*", "?", "[", "]", "!", "^"}))
    [] line = 1132 -> Cat(In({BS}), In({":", BS, ",", "=", SP, TAB, "#"}))
    [] line = 1140 -> In({"#", ":", ",", "=", CR, LF})
    [] line = 1147 -> Plus(NotIn({"#", BS, ":", ",", SP, TAB, CR, LF}))
    [] line = 1163 -> Cat(In({BS}), NotIn({CR, LF}))
    [] line = 1170 -> In({"#", CR, LF})
    [] line = 1181 -> In({"$"})
    [] line = 1195 -> Plus(NotIn({"#", BS, CR, LF, "$"}))
    [] line = 1211 -> Plus(In(xdigit))
    [] line = 1226 -> Plus(In(upper \cup lower \cup digit \cup {"+", "/", "="}))
    [] line = 1248 -> Lit(<<"@", "i", "n", "c", "l", "u", "d", "e">>)
    [] line = 1260 -> Lit(Include \o <<"d", "i", "r">>)
    [] line = 1272 ->
         Cat3(Lit(<<"#">> \o Tail(Include)), Plus(In(blank)),
              Cat(Star(Dot), Opt(Alt(Cat(In({CR}), In({LF})), In({LF})))))
    [] line = 1288 ->
         Cat3(Lit(<<"#">> \o Tail(Include) \o <<"d", "i", "r">>), Plus(In(blank)),
              Cat(Star(Dot), Opt(Alt(Cat(In({CR}), In({LF})), In({LF})))))
    [] line = 1304 ->
         Cat3(Star(In(blank)),
              Lit(<<"D", "e", "f", "a", "u", "l", "t", "s">>),
              Opt(Cat3(In({":", "@", ">", "!"}),
                       Star(In(blank)),
                       Cat3(Star(In({"!"})), Opt(In({DQ})), Alt(ID, WORD)))))
    [] line = 1345 ->
         Cat3(Star(In(blank)),
              Alt(Lit(<<"H", "o", "s", "t">>),
                  Alt(Lit(<<"C", "m", "n", "d">>),
                      Alt(Lit(<<"C", "m", "d">>),
                          Alt(Lit(<<"U", "s", "e", "r">>),
                              Lit(<<"R", "u", "n", "a", "s">>))))),
              Lit(<<"_", "A", "l", "i", "a", "s">>))
    [] line = 1372 ->
         Cat3(Lit(<<"N", "O", "P", "A", "S", "S", "W", "D">>), Star(In(blank)),
              In({":"}))
    [] line = 1454 -> Alt(In({"+"}), Alt(In({"%"}), Lit(<<"%", ":">>)))
    [] line = 1463 -> Cat(In({"+"}), WORD)
    [] line = 1471 -> Cat3(In({"%"}), Opt(In({":"})), Alt(WORD, ID))
    [] line = 1493 -> Cat(IPV6ADDR, Opt(Cat(In({"/"}), IPV6ADDR)))
    [] line = 1517 -> Lit(<<"A", "L", "L">>)
    [] line = 1538 -> Lit(<<"C", "W", "D">>)
    [] line = 1595 -> Cat(In(upper), Star(In(upper \cup digit \cup {"_"})))
    [] line = 1603 ->
         Alt(PATH,
             Alt(REGEX, Lit(<<"s", "u", "d", "o", "e", "d", "i", "t">>)))
    [] line = 1612 -> Lit(<<"s", "h", "a", "2", "2", "4">>)
    [] line = 1619 -> Lit(<<"s", "h", "a", "2", "5", "6">>)
    [] line = 1626 -> Lit(<<"s", "h", "a", "3", "8", "4">>)
    [] line = 1633 -> Lit(<<"s", "h", "a", "5", "1", "2">>)
    [] line = 1640 -> Lit(<<"s", "u", "d", "o", "e", "d", "i", "t">>)
    [] line = 1647 -> Alt(PATH, WORD)
    [] line = 1655 -> PATH
    [] line = 1669 -> REGEX
    [] line = 1682 -> In({DQ})
    [] line = 1689 -> Alt(ID, WORD)
    [] line = 1698 ->
         Cat(NotIn({DQ} \cup space),
             Star(Alt(NotIn(space), Cat(In({BS}), In(blank)))))
    [] line = 1707 -> In({DQ})
    [] line = 1715 -> In({"("})
    [] line = 1720 -> In({")"})
    [] line = 1725 -> In({","})
    [] line = 1730 -> In({"="})
    [] line = 1735 -> In({":"})
    [] line = 1740 -> Plus(In({"!"}))
    [] line = 1747 -> Cat(Opt(In({CR})), In({LF}))
    [] line = 1766 -> Plus(In(blank))
    [] line = 1770 -> Cat3(In({BS}), Star(In(blank)), Cat(Opt(In({CR})), In({LF})))
    [] line = 1776 ->
         Cat3(In({"#"}),
              Opt(Alt(Cat3(In({"-"}), NotIn({CR, LF} \cup digit), Star(Dot)),
                      Cat(NotIn({CR, LF, "-"} \cup digit), Star(Dot)))),
              Opt(Alt(Cat(In({CR}), In({LF})), In({LF}))))
    [] line = 1791 -> Dot

\* %s start conditions take the rules without a start condition as well,
\* %x start conditions do not
Inclusive == {"INITIAL", "GOTDEFS", "WANTDIGEST", "EXPECTPATH"}

\* whether the rule is active in start condition sc
Active_quoteunlabelled(line, sc) ==
  CASE line \in {1012, 1017, 1603} -> sc = "GOTDEFS"
    [] line = 1019 -> sc = "STARTDEFS"
    [] line \in {1028, 1034, 1039, 1049, 1056} -> sc = "INDEFS"
    [] line \in {1065, 1071, 1110, 1116} -> sc = "INSTR"
    [] line \in {1248, 1260, 1272, 1288, 1304, 1345, 1538} -> sc = "INITIAL"
    [] line = 1454 -> sc \in {"INITIAL", "GOTDEFS"}
    [] line = 1647 -> sc = "EXPECTPATH"
    [] line \in {1698, 1707} -> sc = "GOTINC"
    [] line \in {1124, 1132, 1140, 1147} -> sc = "GOTCMND"
    [] line \in {1163, 1170, 1181, 1195} -> sc = "GOTREGEX"
    [] line \in {1211, 1226} -> sc = "WANTDIGEST"
    [] line = 1689 -> sc \in {"INITIAL", "GOTDEFS"}
    [] line = 1776 -> sc \in {"INITIAL", "STARTDEFS", "INDEFS"}
    [] line \in {1740, 1747, 1766, 1770, 1791} -> TRUE
    [] OTHER -> sc \in Inclusive

Active(line, sc) ==
  CASE line \in {1012, 1017, 1603} -> sc = "GOTDEFS"
    [] line = 1019 -> sc = "STARTDEFS"
    [] line \in {1028, 1034, 1039, 1049, 1056} -> sc = "INDEFS"
    [] line \in {1065, 1071, 1110, 1116} -> sc = "INSTR"
    [] line \in {1248, 1260, 1272, 1288, 1304, 1345, 1538} -> sc = "INITIAL"
    [] line \in {1454, 1682} -> sc \in {"INITIAL", "GOTDEFS"}
    [] line = 1647 -> sc = "EXPECTPATH"
    [] line \in {1698, 1707} -> sc = "GOTINC"
    [] line \in {1124, 1132, 1140, 1147} -> sc = "GOTCMND"
    [] line \in {1163, 1170, 1181, 1195} -> sc = "GOTREGEX"
    [] line \in {1211, 1226} -> sc = "WANTDIGEST"
    [] line = 1689 -> sc \in {"INITIAL", "GOTDEFS"}
    [] line = 1776 -> sc \in {"INITIAL", "STARTDEFS", "INDEFS"}
    [] line \in {1740, 1747, 1766, 1770, 1791} -> TRUE
    [] OTHER -> sc \in Inclusive

\* the rules whose pattern starts with ^: they match at the beginning of a
\* line only
Anchored == {1272, 1288, 1304, 1345}

\* the rule flex runs on s at p in start condition sc, at the beginning of a
\* line or not: the active rule with the longest match, the one listed first
\* when several match that much
yy_find_rule(s, p, sc, bol) ==
  LET A == {l \in RuleLines : Active(l, sc) /\ (l \in Anchored => bol)}
      len == [l \in A |-> MatchLen(Pattern(l), s, p)]
      best == CHOOSE l \in A : \A k \in A :
                len[k] < len[l] \/ (len[k] = len[l] /\ l <= k)
  IN  [line |-> best, len |-> len[best]]

\* the scanner runs out of characters with a match still open: some active
\* rule can go on behind the end of s
yy_wants_input(s, p, sc, bol) ==
  \E l \in RuleLines :
    /\ Active(l, sc)
    /\ l \in Anchored => bol
    /\ Open(Pattern(l), s, {p})

(* ---------------------------- sudoers_input --------------------------- *)
\* the bytes of the file `path'
Bytes(f, path) == IF path \in DOMAIN f.text THEN f.text[path] ELSE <<>>

\* getdelim(&buf, &size, '\n', sudoersin) at offset pos of the file: the
\* bytes up to and including the next newline, up to the end of the file
\* when there is none
getdelim(bytes, pos) ==
  LET nl == {i \in (pos + 1)..Len(bytes) : bytes[i] = LF}
  IN  SubSeq(bytes, pos + 1,
             IF nl = {} THEN Len(bytes)
             ELSE CHOOSE i \in nl : \A j \in nl : i <= j)

\* memchr(buf, '\0', avail): where the first NUL is, from 1; 0 for NULL
memchr(buf, c) ==
  LET at == {i \in 1..Len(buf) : buf[i] = c}
  IN  IF at = {} THEN 0 ELSE CHOOSE i \in at : \A j \in at : i <= j

\* mutant: the line is handed on as getdelim returned it
Refill_asread(raw) ==
  [buf |-> raw, len |-> Len(raw), off |-> 0, toke_start |-> 0, toke_end |-> 0]

\* the line buffer after "Refill line buffer if needed": the line is cut at
\* its first NUL, which becomes a newline, a missing newline is added, and
\* the offsets are zeroed
Refill(raw) ==
  LET cp == memchr(raw, NUL)
      cut == IF cp # 0 THEN Append(SubSeq(raw, 1, cp - 1), LF) ELSE raw
      line == IF cut[Len(cut)] # LF THEN Append(cut, LF) ELSE cut
  IN  [buf |-> line, len |-> Len(line), off |-> 0, toke_start |-> 0,
       toke_end |-> 0]

\* sudoers_input(buf, max_size): the characters copied to the scanner are
\* added to yybuf; nothing is added when it returns 0 at the end of the file
sudoers_input(max_size) ==
  LET bytes == Bytes(fs, fh[cur].path)
      pos == fh[cur].pos
      refill == sudolinebuf.len - sudolinebuf.off = 0
  IN  IF refill /\ pos = Len(bytes)
      THEN UNCHANGED <<sudolinebuf, fh, yybuf, rdclosed>>
      ELSE \E lb \in {IF refill THEN Refill(getdelim(bytes, pos))
                       ELSE sudolinebuf} :
             LET avail == IF lb.len - lb.off > max_size THEN max_size
                          ELSE lb.len - lb.off
             IN  /\ sudolinebuf' = [lb EXCEPT !.off = lb.off + avail]
                 /\ yybuf' = yybuf \o SubSeq(lb.buf, lb.off + 1, lb.off + avail)
                 /\ fh' = IF refill
                          THEN [fh EXCEPT ![cur].pos =
                                            pos + Len(getdelim(bytes, pos))]
                          ELSE fh
                 /\ rdclosed' = (rdclosed \/ (refill /\ ~fh[cur].open))

\* the size of the scanner's buffer; no scanned line is that long
YY_READ_BUF_SIZE == 8192

\* yylex is out of characters and calls YY_INPUT, which is sudoers_input;
\* when that returns 0 the end of the file is pending
YY_INPUT ==
  /\ pc = "lex"
  /\ yy_act = NoRule
  /\ arg = NoArg
  /\ yy_buffer_status = "NORMAL"
  /\ yy_wants_input(yybuf, yy_c_buf_p, yy_start, yy_at_bol)
  /\ sudoers_input(YY_READ_BUF_SIZE)
  /\ yy_buffer_status' = IF yybuf' = yybuf THEN "EOF_PENDING" ELSE "NORMAL"
  /\ UNCHANGED <<fs, pc, arg, idepth, istacksize, istack, sudoers, sudolineno,
                 keepopen, cur, tokens, pre, dir, perr, rc>>
  /\ UNCHANGED <<yy_c_buf_p, yy_start, yy_at_bol, yy_saved, prev_state,
                 continued, sawspace, digest_type, sudoerslval, sudoers_strict,
                 yy_act, out, joined, handed, first>>
  /\ UNCHANGED restvars

(* ----------------------- what every rule shares ----------------------- *)
\* yylex finds the rule to run once it has the characters it needs: the
\* <<EOF>> rule when there is none left, the rule yy_find_rule gives
\* otherwise
yy_match ==
  /\ pc = "lex"
  /\ yy_act = NoRule
  /\ arg = NoArg
  /\ \/ yy_buffer_status = "EOF_PENDING"
     \/ ~yy_wants_input(yybuf, yy_c_buf_p, yy_start, yy_at_bol)
  /\ yy_act' = IF yy_c_buf_p > Len(yybuf) THEN [line |-> 1796, len |-> 0]
               ELSE yy_find_rule(yybuf, yy_c_buf_p, yy_start, yy_at_bol)
  /\ UNCHANGED incvars
  /\ UNCHANGED <<yybuf, yy_c_buf_p, yy_start, yy_at_bol, yy_buffer_status,
                 yy_saved, prev_state, continued, sawspace, digest_type,
                 sudoerslval, sudoers_strict, out, joined, handed, first>>
  /\ UNCHANGED restvars

\* the text of the rule about to run and its length
sudoerstext == SubSeq(yybuf, yy_c_buf_p, yy_c_buf_p + yy_act.len - 1)
sudoersleng == yy_act.len

\* rule `line' is the one yylex runs now
Runs(line) ==
  /\ pc = "lex"
  /\ yy_act.line = line

\* YY_RULE_SETUP: the scanner is at the beginning of a line after a text
\* that ends in a newline
EndsLine == sudoerstext[sudoersleng] = LF

\* YY_USER_ACTION, then the action keeps the first n characters of its text:
\* n is sudoersleng unless the action calls sudoersless(n); the scanner goes
\* on behind them
Keeps(n) ==
  /\ yy_act' = NoRule
  /\ yy_c_buf_p' = yy_c_buf_p + n
  /\ sudolinebuf' = [sudolinebuf EXCEPT !.toke_start = sudolinebuf.toke_end,
                                        !.toke_end = sudolinebuf.toke_end + n]

\* return tok
Returns(tok) == out' = Append(out, tok)

\* the rules that consume a backslash and the line break after it
ContinuationRules == {1065, 1770}

\* the tokens of an include directive: the parser reduces it when it has
\* read them and calls push_include before it asks for the next token
IncludeRead(toks) ==
  /\ Len(toks) >= 3
  /\ toks[Len(toks) - 2] \in {"INCLUDE", "INCLUDEDIR"}
  /\ toks[Len(toks) - 1] = "WORD"
  /\ toks[Len(toks)] = LF

\* what no rule of the scanner changes; the history of line continuations;
\* the include directive the parser has read
LexFrame ==
  /\ arg' = IF out' # out /\ IncludeRead(out')
            THEN [path |-> sudoerslval.string,
                  isdir |-> out'[Len(out') - 2] = "INCLUDEDIR"]
            ELSE arg
  /\ UNCHANGED <<fs, idepth, istacksize, istack, sudoers, keepopen, cur,
                 fh, tokens, pre, dir, rdclosed, perr, rc, yybuf,
                 yy_buffer_status, yy_saved, sudoers_strict, first>>
  /\ joined' = IF yy_act.line \in ContinuationRules THEN TRUE
               ELSE IF out' # out /\ out'[Len(out')] = LF THEN FALSE
               ELSE joined
  /\ UNCHANGED restvars

\* yyterminate() straight after a failed allocation
Terminates ==
  /\ pc' = "done"
  /\ Keeps(sudoersleng)
  /\ yy_at_bol' = EndsLine
  /\ UNCHANGED <<sudolineno, yy_start, prev_state, continued, sawspace,
                 digest_type, sudoerslval, out, handed>>

(* ------------------------- toke_util.c, regex.c ----------------------- *)
\* fill_args(s, len, addspace): the argument text after appending s, with a
\* space in front when addspace is set and there are arguments already
fill_args(s, addspace) ==
  IF sudoerslval.command.args = <<>> THEN s
  ELSE sudoerslval.command.args \o (IF addspace THEN <<SP>> ELSE <<>>) \o s

\* fill_cmnd(src, len): the command with the escaped , : = # space and tab
\* unescaped, and no arguments
RECURSIVE Unescape(_)
Unescape(s) ==
  IF s = <<>> THEN <<>>
  ELSE IF s[1] = BS /\ Len(s) > 1 /\ s[2] \in {",", ":", "=", SP, TAB, "#"}
       THEN <<s[2]>> \o Unescape(SubSeq(s, 3, Len(s)))
       ELSE <<s[1]>> \o Unescape(Tail(s))

fill_cmnd(src) == [cmnd |-> Unescape(src), args |-> <<>>]

\* append(src, len): the string so far with src added, a backslash in front
\* of another character of src dropped
RECURSIVE fill_txt(_)
fill_txt(s) ==
  IF s = <<>> THEN <<>>
  ELSE IF s[1] = BS /\ Len(s) > 1
       THEN <<s[2]>> \o fill_txt(SubSeq(s, 3, Len(s)))
       ELSE <<s[1]>> \o fill_txt(Tail(s))

append(src) == sudoerslval.string \o fill_txt(src)

\* sudo_regex_compile(NULL, pattern, &errstr): whether the pattern compiles.
\* It stands for regcomp(3), of which it keeps one rule: an unescaped
\* parenthesis that is never closed is an error
RECURSIVE OpenParens(_, _)
OpenParens(s, n) ==
  IF s = <<>> THEN n
  ELSE IF s[1] = BS /\ Len(s) > 1 THEN OpenParens(SubSeq(s, 3, Len(s)), n)
  ELSE IF s[1] = "(" THEN OpenParens(Tail(s), n + 1)
  ELSE IF s[1] = ")" /\ n > 0 THEN OpenParens(Tail(s), n - 1)
  ELSE OpenParens(Tail(s), n)

sudo_regex_compile(pattern) == OpenParens(pattern, 0) = 0

\* sudo_digest_getlen(digest_type), in bytes
sudo_digest_getlen(type) ==
  CASE type = "SUDO_DIGEST_SHA224" -> 28
    [] type = "SUDO_DIGEST_SHA256" -> 32
    [] type = "SUDO_DIGEST_SHA384" -> 48
    [] type = "SUDO_DIGEST_SHA512" -> 64

(* ------------------------------ <GOTCMND> ----------------------------- *)
\* \\[\*\?\[\]\!^]: quoted fnmatch glob char, pass verbatim
R1124_QuotedGlob ==
  /\ Runs(1124)
  /\ \E mem \in BOOLEAN :
       IF mem
       THEN /\ sudoerslval' =
                 [sudoerslval EXCEPT !.command.args =
                                        fill_args(sudoerstext, sawspace)]
            /\ sawspace' = FALSE
            /\ Keeps(sudoersleng)
            /\ yy_at_bol' = EndsLine
            /\ UNCHANGED <<pc, sudolineno, yy_start, prev_state, continued,
                           digest_type, out, handed>>
       ELSE Terminates
  /\ LexFrame

\* \\[:\\,= \t#]: quoted sudoers special char, strip backslash
R1132_QuotedSpecial ==
  /\ Runs(1132)
  /\ \E mem \in BOOLEAN :
       IF mem
       THEN /\ sudoerslval' =
                 [sudoerslval EXCEPT !.command.args =
                                        fill_args(Tail(sudoerstext), sawspace)]
            /\ sawspace' = FALSE
            /\ Keeps(sudoersleng)
            /\ yy_at_bol' = EndsLine
            /\ UNCHANGED <<pc, sudolineno, yy_start, prev_state, continued,
                           digest_type, out, handed>>
       ELSE Terminates
  /\ LexFrame

\* [#:\,=\r\n]: end of command line args
R1140_EndOfArgs ==
  /\ Runs(1140)
  /\ yy_start' = "INITIAL"
  /\ Keeps(0)
  /\ yy_at_bol' = FALSE
  /\ Returns("COMMAND")
  /\ UNCHANGED <<pc, sudolineno, prev_state, continued, sawspace, digest_type,
                 sudoerslval, handed>>
  /\ LexFrame

\* [^#\\:, \t\r\n]+: a command line arg, or the start of a regex
R1147_Arg ==
  /\ Runs(1147)
  /\ IF sudoerslval.command.args = <<>> /\ sudoerstext[1] = "^"
     THEN /\ yy_start' = "GOTREGEX"
          /\ Keeps(0)
          /\ yy_at_bol' = FALSE
          /\ UNCHANGED <<pc, sudolineno, prev_state, continued, sawspace,
                         digest_type, sudoerslval, out, handed>>
     ELSE \E mem \in BOOLEAN :
            IF mem
            THEN /\ sudoerslval' =
                      [sudoerslval EXCEPT !.command.args =
                                             fill_args(sudoerstext, sawspace)]
                 /\ sawspace' = FALSE
                 /\ Keeps(sudoersleng)
                 /\ yy_at_bol' = EndsLine
                 /\ UNCHANGED <<pc, sudolineno, yy_start, prev_state,
                                continued, digest_type, out, handed>>
            ELSE Terminates
  /\ LexFrame

(* ----------------------------- <GOTREGEX> ----------------------------- *)
\* \\[^\r\n]: quoted character, pass verbatim
R1163_RegexQuoted ==
  /\ Runs(1163)
  /\ \E mem \in BOOLEAN :
       IF mem
       THEN /\ sudoerslval' =
                 [sudoerslval EXCEPT !.command.args =
                                        fill_args(sudoerstext, FALSE)]
            /\ Keeps(sudoersleng)
            /\ yy_at_bol' = EndsLine
            /\ UNCHANGED <<pc, sudolineno, yy_start, prev_state, continued,
                           sawspace, digest_type, out, handed>>
       ELSE Terminates
  /\ LexFrame

\* [#\r\n]: illegal inside regex
R1170_RegexUnterminated ==
  /\ Runs(1170)
  /\ Keeps(0)
  /\ yy_at_bol' = FALSE
  /\ yy_start' = "INITIAL"
  /\ Returns("ERROR")
  /\ UNCHANGED <<pc, sudolineno, prev_state, continued, sawspace, digest_type,
                 sudoerslval, handed>>
  /\ LexFrame

\* \$: the end of the regex; in strict mode sudoerstext goes to the regex
\* compiler
R1181_RegexEnd ==
  /\ Runs(1181)
  /\ \E mem \in BOOLEAN :
       IF mem
       THEN /\ sudoerslval' =
                 [sudoerslval EXCEPT !.command.args = fill_args(<<"$">>, FALSE)]
            /\ yy_start' = "INITIAL"
            /\ continued' = FALSE
            /\ Keeps(sudoersleng)
            /\ yy_at_bol' = EndsLine
            /\ handed' = IF sudoers_strict THEN Append(handed, sudoerstext)
                         ELSE handed
            /\ IF sudoers_strict /\ ~sudo_regex_compile(sudoerstext)
               THEN Returns("ERROR")
               ELSE Returns("COMMAND")
            /\ UNCHANGED <<pc, sudolineno, prev_state, sawspace, digest_type>>
       ELSE Terminates
  /\ LexFrame

\* [^#\\\r\n$]+: regex text, without the blanks that follow a continuation
RECURSIVE SkipBlanks(_)
SkipBlanks(s) ==
  IF s # <<>> /\ s[1] \in blank THEN SkipBlanks(Tail(s)) ELSE s

R1195_RegexText ==
  /\ Runs(1195)
  /\ LET text == IF continued THEN SkipBlanks(sudoerstext) ELSE sudoerstext
     IN  \E mem \in BOOLEAN :
           IF mem \/ text = <<>>
           THEN /\ sudoerslval' =
                     IF text = <<>> THEN sudoerslval
                     ELSE [sudoerslval EXCEPT !.command.args =
                                                 fill_args(text, FALSE)]
                /\ continued' = FALSE
                /\ Keeps(sudoersleng)
                /\ yy_at_bol' = EndsLine
                /\ UNCHANGED <<pc, sudolineno, yy_start, prev_state, sawspace,
                               digest_type, out, handed>>
           ELSE /\ pc' = "done"
                /\ continued' = FALSE
                /\ Keeps(sudoersleng)
                /\ yy_at_bol' = EndsLine
                /\ UNCHANGED <<sudolineno, yy_start, prev_state, sawspace,
                               digest_type, sudoerslval, out, handed>>
  /\ LexFrame


(* ---------------------------- <WANTDIGEST> ---------------------------- *)
\* fill(src, len): the text of the token
fill(src) == src

\* the length a hex digest must have
HexLen == sudo_digest_getlen(digest_type) * 2

\* the length a base64 digest must have: with padding when the text ends
\* in '=', without it otherwise
Base64Len ==
  LET digest_len == sudo_digest_getlen(digest_type)
  IN  IF sudoerstext[sudoersleng] = "="
      THEN 4 * ((digest_len + 2) \div 3)
      ELSE (4 * digest_len + 2) \div 3

\* [[:xdigit:]]+: hex digest
R1211_HexDigest ==
  /\ Runs(1211)
  /\ LET digest_len == HexLen
     IN  IF sudoersleng = digest_len
         THEN \E mem \in BOOLEAN :
                IF mem
                THEN /\ sudoerslval' =
                          [sudoerslval EXCEPT !.string = fill(sudoerstext)]
                     /\ yy_start' = "INITIAL"
                     /\ Keeps(sudoersleng)
                     /\ yy_at_bol' = EndsLine
                     /\ Returns("DIGEST")
                     /\ UNCHANGED <<pc, sudolineno, prev_state, continued,
                                    sawspace, digest_type, handed>>
                ELSE Terminates
         ELSE /\ yy_start' = "INITIAL"
              /\ Keeps(sudoersleng)
              /\ yy_at_bol' = EndsLine
              /\ UNCHANGED <<pc, sudolineno, prev_state, continued, sawspace,
                             digest_type, sudoerslval, out, handed>>
  /\ LexFrame

\* [A-Za-z0-9\+/=]+: base64 digest
R1226_Base64Digest ==
  /\ Runs(1226)
  /\ LET len == Base64Len
     IN  IF sudoersleng = len
         THEN \E mem \in BOOLEAN :
                IF mem
                THEN /\ sudoerslval' =
                          [sudoerslval EXCEPT !.string = fill(sudoerstext)]
                     /\ yy_start' = "INITIAL"
                     /\ Keeps(sudoersleng)
                     /\ yy_at_bol' = EndsLine
                     /\ Returns("DIGEST")
                     /\ UNCHANGED <<pc, sudolineno, prev_state, continued,
                                    sawspace, digest_type, handed>>
                ELSE Terminates
         ELSE /\ yy_start' = "INITIAL"
              /\ Keeps(sudoersleng)
              /\ yy_at_bol' = EndsLine
              /\ UNCHANGED <<pc, sudolineno, prev_state, continued, sawspace,
                             digest_type, sudoerslval, out, handed>>
  /\ LexFrame

(* ------------------- rules without a start condition ------------------ *)
\* a rule that returns the token tok and does nothing else
JustReturns(tok) ==
  /\ Keeps(sudoersleng)
  /\ yy_at_bol' = EndsLine
  /\ Returns(tok)
  /\ UNCHANGED <<pc, sudolineno, yy_start, prev_state, continued, sawspace,
                 digest_type, sudoerslval, handed>>
  /\ LexFrame

\* a rule that stores its text with fill() and returns the token tok
FillsAndReturns(tok) ==
  /\ \E mem \in BOOLEAN :
       IF mem
       THEN /\ sudoerslval' = [sudoerslval EXCEPT !.string = fill(sudoerstext)]
            /\ Keeps(sudoersleng)
            /\ yy_at_bol' = EndsLine
            /\ Returns(tok)
            /\ UNCHANGED <<pc, sudolineno, yy_start, prev_state, continued,
                           sawspace, digest_type, handed>>
       ELSE Terminates
  /\ LexFrame

(* ---------------- <GOTDEFS>, <STARTDEFS>, <INDEFS>: Defaults ---------- *)
\* a rule that only changes the start condition to sc and returns tok
BeginsAndReturns(sc, tok) ==
  /\ yy_start' = sc
  /\ Keeps(sudoersleng)
  /\ yy_at_bol' = EndsLine
  /\ Returns(tok)
  /\ UNCHANGED <<pc, sudolineno, prev_state, continued, sawspace, digest_type,
                 sudoerslval, handed>>
  /\ LexFrame

\* a rule that stores its text with fill(), changes the start condition and
\* returns tok; scfail is the start condition it is in when fill() fails
FillsBeginsAndReturns(sc, scfail, tok) ==
  /\ Keeps(sudoersleng)
  /\ yy_at_bol' = EndsLine
  /\ \E mem \in BOOLEAN :
       /\ sudoerslval' = IF mem
                         THEN [sudoerslval EXCEPT !.string = fill(sudoerstext)]
                         ELSE sudoerslval
       /\ pc' = IF mem THEN pc ELSE "done"
       /\ yy_start' = IF mem THEN sc ELSE scfail
       /\ out' = IF mem THEN Append(out, tok) ELSE out
  /\ UNCHANGED <<sudolineno, prev_state, continued, sawspace, digest_type,
                 handed>>
  /\ LexFrame

\* a '"' that begins a string: the string is empty and the start condition
\* to come back to is noted
OpensString_keepprev(prev) ==
  /\ sudoerslval' = [sudoerslval EXCEPT !.string = <<>>]
  /\ UNCHANGED prev_state
  /\ yy_start' = "INSTR"
  /\ Keeps(sudoersleng)
  /\ yy_at_bol' = EndsLine
  /\ UNCHANGED <<pc, sudolineno, continued, sawspace, digest_type, out,
                 handed>>
  /\ LexFrame

OpensString(prev) ==
  /\ sudoerslval' = [sudoerslval EXCEPT !.string = <<>>]
  /\ prev_state' = prev
  /\ yy_start' = "INSTR"
  /\ Keeps(sudoersleng)
  /\ yy_at_bol' = EndsLine
  /\ UNCHANGED <<pc, sudolineno, continued, sawspace, digest_type, out,
                 handed>>
  /\ LexFrame

\* <GOTDEFS>[[:blank:]]*,[[:blank:]]*
R1012_DefsComma == Runs(1012) /\ JustReturns(",")

\* <GOTDEFS>[[:blank:]]+
R1017_DefsBlanks ==
  /\ Runs(1017)
  /\ yy_start' = "STARTDEFS"
  /\ Keeps(sudoersleng)
  /\ yy_at_bol' = EndsLine
  /\ UNCHANGED <<pc, sudolineno, prev_state, continued, sawspace, digest_type,
                 sudoerslval, out, handed>>
  /\ LexFrame

\* <STARTDEFS>{DEFVAR}
R1019_Defvar == Runs(1019) /\ FillsBeginsAndReturns("INDEFS", "INDEFS", "DEFVAR")

\* <INDEFS>,
R1028_InDefsComma == Runs(1028) /\ BeginsAndReturns("STARTDEFS", ",")

\* <INDEFS>=
R1034_InDefsEquals == Runs(1034) /\ JustReturns("=")

\* <INDEFS>\+=
R1039_InDefsPlusEquals == Runs(1039) /\ JustReturns("+")

\* <INDEFS>\"
R1049_InDefsQuote == Runs(1049) /\ OpensString(yy_start)

\* <INDEFS>{ENVAR}
R1056_Envar == Runs(1056) /\ FillsAndReturns("WORD")

(* ------------------------------- <INSTR> ------------------------------ *)
\* <INSTR>\\[[:blank:]]*\r?\n[[:blank:]]*: line continuation in a string
R1065_StrContinuation ==
  /\ Runs(1065)
  /\ sudolineno' = sudolineno + 1
  /\ continued' = TRUE
  /\ Keeps(sudoersleng)
  /\ yy_at_bol' = EndsLine
  /\ UNCHANGED <<pc, yy_start, prev_state, sawspace, digest_type, sudoerslval,
                 out, handed>>
  /\ LexFrame

\* the token of a string that ends: ERROR for an empty string; for a string
\* begun in INITIAL or GOTDEFS, USERGROUP after '%' and NETGROUP after '+',
\* ERROR when nothing follows the '%', "%:" or '+'; WORD otherwise
StringToken_plusgroup(str, prev) ==
  IF str = <<>> THEN "ERROR"
  ELSE IF prev \in {"INITIAL", "GOTDEFS"} /\ str[1] = "%"
       THEN IF Len(str) = 1 \/ (str[2] = ":" /\ Len(str) = 2)
            THEN "ERROR" ELSE "USERGROUP"
  ELSE IF prev \in {"INITIAL", "GOTDEFS"} /\ str[1] = "+"
       THEN IF Len(str) = 1 THEN "ERROR" ELSE "USERGROUP"
  ELSE "WORD"

StringToken(str, prev) ==
  IF str = <<>> THEN "ERROR"
  ELSE IF prev \in {"INITIAL", "GOTDEFS"} /\ str[1] = "%"
       THEN IF Len(str) = 1 \/ (str[2] = ":" /\ Len(str) = 2)
            THEN "ERROR" ELSE "USERGROUP"
  ELSE IF prev \in {"INITIAL", "GOTDEFS"} /\ str[1] = "+"
       THEN IF Len(str) = 1 THEN "ERROR" ELSE "NETGROUP"
  ELSE "WORD"

\* <INSTR>\": the end of the string; an empty group or netgroup is freed
R1071_EndString ==
  /\ Runs(1071)
  /\ yy_start' = prev_state
  /\ Keeps(sudoersleng)
  /\ yy_at_bol' = EndsLine
  /\ Returns(StringToken(sudoerslval.string, prev_state))
  /\ sudoerslval' =
       IF StringToken(sudoerslval.string, prev_state) = "ERROR"
       THEN [sudoerslval EXCEPT !.string = <<>>]
       ELSE sudoerslval
  /\ UNCHANGED <<pc, sudolineno, prev_state, continued, sawspace, digest_type,
                 handed>>
  /\ LexFrame

\* a rule that adds its text to the string with append()
Appends ==
  /\ \E mem \in BOOLEAN :
       IF mem
       THEN /\ sudoerslval' = [sudoerslval EXCEPT !.string = append(sudoerstext)]
            /\ Keeps(sudoersleng)
            /\ yy_at_bol' = EndsLine
            /\ UNCHANGED <<pc, sudolineno, yy_start, prev_state, continued,
                           sawspace, digest_type, out, handed>>
       ELSE Terminates
  /\ LexFrame

\* <INSTR>\\
R1110_StrBackslash == Runs(1110) /\ Appends

\* <INSTR>([^\"\r\n\\]|\\\")+
R1116_StrBody == Runs(1116) /\ Appends

(* ------------------------ @include and Defaults ----------------------- *)
\* <INITIAL>@include: not after a line continuation
R1248_Include ==
  /\ Runs(1248)
  /\ IF continued THEN JustReturns("ERROR")
     ELSE BeginsAndReturns("GOTINC", "INCLUDE")

\* <INITIAL>@includedir
R1260_IncludeDir ==
  /\ Runs(1260)
  /\ IF continued THEN JustReturns("ERROR")
     ELSE BeginsAndReturns("GOTINC", "INCLUDEDIR")

\* the action of ^#include and ^#includedir: only the n characters of the
\* keyword are consumed, and the scanner is no longer at the beginning of a
\* line
HashInclude(n, tok) ==
  IF continued THEN JustReturns("ERROR")
  ELSE /\ yy_start' = "GOTINC"
       /\ Keeps(n)
       /\ yy_at_bol' = FALSE
       /\ Returns(tok)
       /\ UNCHANGED <<pc, sudolineno, prev_state, continued, sawspace,
                      digest_type, sudoerslval, handed>>
       /\ LexFrame

\* <INITIAL>^#include[[:blank:]]+.*(\r\n|\n)?
R1272_HashInclude == Runs(1272) /\ HashInclude(8, "INCLUDE")

\* <INITIAL>^#includedir[[:blank:]]+.*(\r\n|\n)?
R1288_HashIncludeDir == Runs(1288) /\ HashInclude(11, "INCLUDEDIR")

\* the number of blanks s begins with
RECURSIVE LeadingBlanks(_)
LeadingBlanks(s) ==
  IF s # <<>> /\ s[1] \in blank THEN 1 + LeadingBlanks(Tail(s)) ELSE 0

\* <INITIAL>^[[:blank:]]*Defaults([:@>\!][[:blank:]]*\!*\"?({ID}|{WORD}))?:
\* what follows the type character and its blanks is scanned again
R1304_Defaults ==
  /\ Runs(1304)
  /\ IF continued THEN JustReturns("ERROR")
     ELSE LET n0 == LeadingBlanks(sudoerstext) + 8
              deftype == IF n0 < sudoersleng THEN sudoerstext[n0 + 1] ELSE ""
              n == n0 + 1 + LeadingBlanks(SubSeq(sudoerstext, n0 + 2,
                                                 sudoersleng))
          IN  /\ yy_start' = "GOTDEFS"
              /\ yy_at_bol' = EndsLine
              /\ CASE deftype = ":" -> Keeps(n) /\ Returns("DEFAULTS_USER")
                   [] deftype = ">" -> Keeps(n) /\ Returns("DEFAULTS_RUNAS")
                   [] deftype = "@" -> Keeps(n) /\ Returns("DEFAULTS_HOST")
                   [] deftype = "!" -> Keeps(n) /\ Returns("DEFAULTS_CMND")
                   [] OTHER -> Keeps(sudoersleng) /\ Returns("DEFAULTS")
              /\ UNCHANGED <<pc, sudolineno, prev_state, continued, sawspace,
                             digest_type, sudoerslval, handed>>
              /\ LexFrame

\* <INITIAL>^[[:blank:]]*(Host|Cmnd|Cmd|User|Runas)_Alias
R1345_AliasKeyword ==
  /\ Runs(1345)
  /\ IF continued THEN JustReturns("ERROR")
     ELSE LET c == sudoerstext[LeadingBlanks(sudoerstext) + 1]
          IN  JustReturns(CASE c = "H" -> "HOSTALIAS"
                            [] c = "C" -> "CMNDALIAS"
                            [] c = "U" -> "USERALIAS"
                            [] c = "R" -> "RUNASALIAS")

(* ------------------------ groups and netgroups ------------------------ *)
\* <INITIAL,GOTDEFS>(\+|\%|\%:): empty netgroup, empty group
R1454_EmptyGroup == Runs(1454) /\ JustReturns("ERROR")

\* \+{WORD}
R1463_Netgroup == Runs(1463) /\ FillsAndReturns("NETGROUP")

\* \%:?({WORD}|{ID})
R1471_Usergroup == Runs(1471) /\ FillsAndReturns("USERGROUP")

(* ------------------------- CWD and <EXPECTPATH> ----------------------- *)
\* <INITIAL>CWD
R1538_Cwd ==
  /\ Runs(1538)
  /\ prev_state' = yy_start
  /\ yy_start' = "EXPECTPATH"
  /\ Keeps(sudoersleng)
  /\ yy_at_bol' = EndsLine
  /\ Returns("CWD")
  /\ UNCHANGED <<pc, sudolineno, continued, sawspace, digest_type,
                 sudoerslval, handed>>
  /\ LexFrame

\* <GOTDEFS>({PATH}|{REGEX}|sudoedit): no arguments after Defaults!/path
R1603_DefsCommand ==
  /\ Runs(1603)
  /\ \E mem \in BOOLEAN :
       IF mem
       THEN /\ sudoerslval' = [sudoerslval EXCEPT !.command =
                                                   fill_cmnd(sudoerstext)]
            /\ Keeps(sudoersleng)
            /\ yy_at_bol' = EndsLine
            /\ Returns("COMMAND")
            /\ UNCHANGED <<pc, sudolineno, yy_start, prev_state, continued,
                           sawspace, digest_type, handed>>
       ELSE Terminates
  /\ LexFrame

\* <EXPECTPATH>({PATH}|{WORD})
R1647_ExpectPath ==
  Runs(1647) /\ FillsBeginsAndReturns(prev_state, prev_state, "WORD")

\* <INITIAL,GOTDEFS>\"
R1682_Quote == Runs(1682) /\ OpensString(yy_start)

(* ------------------------------ <GOTINC> ------------------------------ *)
\* <GOTINC>[^\"[:space:]]([^[:space:]]|\\[[:blank:]])*: the file or directory
R1698_IncPath ==
  Runs(1698) /\ FillsBeginsAndReturns("INITIAL", yy_start, "WORD")

\* <GOTINC>\"
R1707_IncQuote == Runs(1707) /\ OpensString("INITIAL")

\* {IPV6ADDR}(\/{IPV6ADDR})?: ipv6_valid(sudoerstext) decides between ERROR
\* and NTWKADDR
R1493_Ipv6Addr ==
  /\ Runs(1493)
  /\ \E ipv6_valid \in BOOLEAN :
       IF ipv6_valid THEN FillsAndReturns("NTWKADDR") ELSE JustReturns("ERROR")

\* [[:upper:]][[:upper:][:digit:]_]*: an alias name
R1595_Alias == Runs(1595) /\ FillsAndReturns("ALIAS")

\* the action of a digest keyword: the algorithm is noted and a digest is
\* expected next
DigestKeyword(type, tok) ==
  /\ digest_type' = type
  /\ yy_start' = "WANTDIGEST"
  /\ Keeps(sudoersleng)
  /\ yy_at_bol' = EndsLine
  /\ Returns(tok)
  /\ UNCHANGED <<pc, sudolineno, prev_state, continued, sawspace, sudoerslval,
                 handed>>
  /\ LexFrame

\* sha224
R1612_Sha224 == Runs(1612) /\ DigestKeyword("SUDO_DIGEST_SHA224", "SHA224_TOK")

\* sha256
R1619_Sha256 == Runs(1619) /\ DigestKeyword("SUDO_DIGEST_SHA256", "SHA256_TOK")

\* sha384
R1626_Sha384 == Runs(1626) /\ DigestKeyword("SUDO_DIGEST_SHA384", "SHA384_TOK")

\* sha512
R1633_Sha512 == Runs(1633) /\ DigestKeyword("SUDO_DIGEST_SHA512", "SHA512_TOK")

\* sudoedit: sudo -e
R1640_Sudoedit ==
  /\ Runs(1640)
  /\ yy_start' = "GOTCMND"
  /\ Keeps(sudoersleng)
  /\ yy_at_bol' = EndsLine
  /\ \E mem \in BOOLEAN :
       /\ sudoerslval' = IF mem
                         THEN [sudoerslval EXCEPT !.command =
                                                     fill_cmnd(sudoerstext)]
                         ELSE sudoerslval
       /\ pc' = IF mem THEN pc ELSE "done"
  /\ UNCHANGED <<sudolineno, prev_state, continued, sawspace, digest_type, out,
                 handed>>
  /\ LexFrame

\* mutant: every path is returned as COMMAND at once
R1655_Path_atonce ==
  /\ Runs(1655)
  /\ Keeps(sudoersleng)
  /\ yy_at_bol' = EndsLine
  /\ \E mem \in BOOLEAN :
       /\ sudoerslval' = IF mem
                         THEN [sudoerslval EXCEPT !.command =
                                                     fill_cmnd(sudoerstext)]
                         ELSE sudoerslval
       /\ pc' = IF mem THEN pc ELSE "done"
       /\ out' = IF mem THEN Append(out, "COMMAND") ELSE out
       /\ UNCHANGED yy_start
  /\ UNCHANGED <<sudolineno, prev_state, continued, sawspace, digest_type,
                 handed>>
  /\ LexFrame

\* {PATH}: a pathname; directories can't have args
R1655_Path ==
  /\ Runs(1655)
  /\ Keeps(sudoersleng)
  /\ yy_at_bol' = EndsLine
  /\ \E mem \in BOOLEAN :
       /\ sudoerslval' = IF mem
                         THEN [sudoerslval EXCEPT !.command =
                                                     fill_cmnd(sudoerstext)]
                         ELSE sudoerslval
       /\ pc' = IF mem THEN pc ELSE "done"
       /\ IF sudoerstext[sudoersleng] = "/"
          THEN /\ out' = IF mem THEN Append(out, "COMMAND") ELSE out
               /\ UNCHANGED yy_start
          ELSE /\ yy_start' = "GOTCMND"
               /\ UNCHANGED out
  /\ UNCHANGED <<sudolineno, prev_state, continued, sawspace, digest_type,
                 handed>>
  /\ LexFrame

\* {REGEX}: a regex; in strict mode the regex compiler must accept it
R1669_Regex ==
  /\ Runs(1669)
  /\ Keeps(sudoersleng)
  /\ yy_at_bol' = EndsLine
  /\ handed' = IF sudoers_strict THEN Append(handed, sudoerstext) ELSE handed
  /\ IF sudoers_strict /\ ~sudo_regex_compile(sudoerstext)
     THEN /\ Returns("ERROR")
          /\ UNCHANGED <<pc, yy_start, sudoerslval>>
     ELSE /\ yy_start' = "GOTCMND"
          /\ \E mem \in BOOLEAN :
               /\ sudoerslval' = IF mem
                                 THEN [sudoerslval EXCEPT !.command =
                                                         fill_cmnd(sudoerstext)]
                                 ELSE sudoerslval
               /\ pc' = IF mem THEN pc ELSE "done"
          /\ UNCHANGED out
  /\ UNCHANGED <<sudolineno, prev_state, continued, sawspace, digest_type>>
  /\ LexFrame

\* <INITIAL,GOTDEFS>({ID}|{WORD}): a word
R1689_Word == Runs(1689) /\ FillsAndReturns("WORD")

\* NOPASSWD[[:blank:]]*:
R1372_Nopasswd == Runs(1372) /\ JustReturns("NOPASSWD")

\* ALL
R1517_All == Runs(1517) /\ JustReturns("ALL")

\* \(    \)    ,    =    :
R1715_LeftParen == Runs(1715) /\ JustReturns("(")
R1720_RightParen == Runs(1720) /\ JustReturns(")")
R1725_Comma == Runs(1725) /\ JustReturns(",")
R1730_Equals == Runs(1730) /\ JustReturns("=")
R1735_Colon == Runs(1735) /\ JustReturns(":")


(* --------------------------- rules under <*> -------------------------- *)
\* mutant: every run of '!' is a '!'
R1740_Bangs_always == Runs(1740) /\ JustReturns("!")

\* <*>!+: an odd number of '!' is a '!', an even number is nothing
R1740_Bangs ==
  /\ Runs(1740)
  /\ Keeps(sudoersleng)
  /\ yy_at_bol' = EndsLine
  /\ out' = IF sudoersleng % 2 = 1 THEN Append(out, "!") ELSE out
  /\ UNCHANGED <<pc, sudolineno, yy_start, prev_state, continued, sawspace,
                 digest_type, sudoerslval, handed>>
  /\ LexFrame

\* <*>\r?\n: return newline; inside a string it is an error and is scanned
\* again
R1747_Newline_norescan ==
  /\ Runs(1747)
  /\ IF yy_start = "INSTR"
     THEN /\ sudoerslval' = [sudoerslval EXCEPT !.string = <<>>]
          /\ Keeps(sudoersleng)
          /\ Returns("ERROR")
          /\ UNCHANGED <<sudolineno, continued>>
     ELSE /\ sudolineno' = sudolineno + 1
          /\ continued' = FALSE
          /\ Keeps(sudoersleng)
          /\ Returns(LF)
          /\ UNCHANGED sudoerslval
  /\ yy_start' = "INITIAL"
  /\ yy_at_bol' = EndsLine
  /\ UNCHANGED <<pc, prev_state, sawspace, digest_type, handed>>
  /\ LexFrame

R1747_Newline ==
  /\ Runs(1747)
  /\ IF yy_start = "INSTR"
     THEN /\ sudoerslval' = [sudoerslval EXCEPT !.string = <<>>]
          /\ Keeps(0)
          /\ Returns("ERROR")
          /\ UNCHANGED <<sudolineno, continued>>
     ELSE /\ sudolineno' = sudolineno + 1
          /\ continued' = FALSE
          /\ Keeps(sudoersleng)
          /\ Returns(LF)
          /\ UNCHANGED sudoerslval
  /\ yy_start' = "INITIAL"
  /\ yy_at_bol' = EndsLine
  /\ UNCHANGED <<pc, prev_state, sawspace, digest_type, handed>>
  /\ LexFrame

\* <*>[[:blank:]]+: throw away space/tabs, but remember for fill_args
R1766_Blanks ==
  /\ Runs(1766)
  /\ sawspace' = TRUE
  /\ Keeps(sudoersleng)
  /\ yy_at_bol' = EndsLine
  /\ UNCHANGED <<pc, sudolineno, yy_start, prev_state, continued, digest_type,
                 sudoerslval, out, handed>>
  /\ LexFrame

\* <*>\\[[:blank:]]*\r?\n: throw away EOL after \
R1770_Continuation ==
  /\ Runs(1770)
  /\ sawspace' = TRUE
  /\ sudolineno' = sudolineno + 1
  /\ continued' = TRUE
  /\ Keeps(sudoersleng)
  /\ yy_at_bol' = EndsLine
  /\ UNCHANGED <<pc, yy_start, prev_state, digest_type, sudoerslval, out,
                 handed>>
  /\ LexFrame

\* feof(sudoersin): the end-of-file indicator of the current file is set
\* once getdelim has read a last line that has no newline, or getc has
\* returned EOF
feof ==
  LET bytes == Bytes(fs, fh[cur].path)
  IN  /\ fh[cur].pos = Len(bytes)
      /\ \/ yy_buffer_status = "EOF_PENDING"
         \/ bytes # <<>> /\ bytes[Len(bytes)] # LF

\* <INITIAL,STARTDEFS,INDEFS>#...: comment, not uid/gid; one that does not
\* end in a newline is an error unless the file is at its end
R1776_Comment ==
  /\ Runs(1776)
  /\ Keeps(sudoersleng)
  /\ yy_at_bol' = EndsLine
  /\ IF sudoerstext[sudoersleng] = LF
     THEN /\ yy_start' = "INITIAL"
          /\ sudolineno' = sudolineno + 1
          /\ continued' = FALSE
          /\ Returns(LF)
     ELSE /\ Returns(IF feof THEN LF ELSE "ERROR")
          /\ UNCHANGED <<yy_start, sudolineno, continued>>
  /\ UNCHANGED <<pc, prev_state, sawspace, digest_type, sudoerslval, handed>>
  /\ LexFrame

\* <*>.: parse error, no matching token
R1791_NoMatch == Runs(1791) /\ JustReturns("NOMATCH")

\* <*><<EOF>>: sudoers_input has nothing left; when pop_include() returns
\* false, because the include stack is empty, the scanner terminates; the
\* action does nothing else
R1796_EOF ==
  /\ Runs(1796)
  /\ yy_act' = NoRule
  /\ UNCHANGED rdclosed
  /\ IF idepth = 0
     THEN /\ pc' = "done"
          /\ UNCHANGED <<idepth, istack, sudoers, sudolineno, sudolinebuf,
                         keepopen, cur, fh, pre, dir, rc>>
          /\ UNCHANGED <<yy_at_bol, yy_buffer_status, yy_saved>>
     ELSE /\ pop_include
          /\ \E h \in {pop_include_rc} :
               rc' = IF rc # "balanced" THEN rc ELSE RcVerdict(h)
          /\ yy_switch_popped
          /\ UNCHANGED pc
  /\ UNCHANGED <<fs, arg, istacksize, tokens, perr>>
  /\ UNCHANGED <<yybuf, yy_c_buf_p, yy_start, prev_state, continued, sawspace,
                 digest_type, sudoerslval, sudoers_strict, out, joined, handed,
                 first>>
  /\ UNCHANGED restvars

(* --------------------------- the scanned lines ------------------------ *)
\* n copies of the character c
Copies(c, n) == [i \in 1..n |-> c]

\* a command and what follows it on the line
CmndLines ==
  { <<"/", "b">> \o t \o <<LF>> :
      t \in SeqsOf({"a", "=", ":", ",", "#", BS, SP, CR}, 0, MaxTail) }

\* a command whose arguments are a regular expression
RegexLines ==
  { <<"/", "b", SP, "^">> \o t \o <<LF>> :
      t \in SeqsOf({"a", "(", "$", BS, "#"}, 0, MaxTail) }

\* a digest keyword and what follows it
DigestLines ==
  { <<"s", "h", "a", "2", "2", "4", SP>> \o t \o <<LF>> :
      t \in SeqsOf({"a", "2", "g", "=", "/", SP}, 0, MaxRun) }
  \cup
  { <<"s", "h", "a", "2", "2", "4", SP>> \o t \o <<SP, "/", "b", LF>> :
      t \in {Copies("a", 56), Copies("g", 38), Copies("g", 39) \o <<"=">>} }
  \cup
  { k \o <<SP>> \o Copies("a", n) \o d :
      k \in {<<"s", "h", "a", "2", "5", "6">>, <<"s", "h", "a", "3", "8", "4">>,
             <<"s", "h", "a", "5", "1", "2">>},
      n \in {63, 64, 96, 128},
      d \in {<<LF>>, <<SP, "/", "b", LF>>} }
  \cup
  { <<"s", "h", "a", "2", "2", "4", SP>> \o t \o <<LF>> :
      t \in {Copies("A", 56) \o <<"_">>, Copies("A", 56) \o <<",">>,
             <<"a", ":", ":">>, <<"A", "_">>} }

\* lines for the rules the other lines do not reach
OtherLines ==
  { <<"/", "b", SP, BS, "^", "a", LF>>,
    <<"/", "b", "/", LF>>,
    <<"^", "a", "$", SP, "a", LF>>,
    <<"^", "(", "$", LF>>,
    <<"/", "b", ",", "(", "a", LF>>,
    <<"/", "b", SP, "^", "a", BS, LF, SP, "a", "$", LF>> }

\* the longest text between the quotes of a scanned string
MaxStr == 2

\* a quoted string in INITIAL, GOTDEFS, INDEFS and GOTINC: closed at the end
\* of the line, closed before more text, or cut by the end of the line
StringLines ==
  { b \o <<DQ>> \o t \o e :
      b \in {<<>>, Defaults \o <<":">>, Defaults \o <<SP, "a", "=">>,
             Include \o <<SP>>},
      t \in SeqsOf({"a", "%", "+", ":", BS}, 0, MaxStr),
      e \in {<<DQ, LF>>, <<DQ, SP, "a", LF>>, <<LF>>, <<LF, "/", "b", LF>>,
             <<CR, LF, "a", LF>>} }

\* a '"' where no string can begin, Defaults lines, groups, @include, CWD
QuoteLines ==
  { <<"/", "b", SP, DQ, "a", DQ, LF>>,
    <<"/", "b", SP, "^", DQ, "a", DQ, "$", LF>>,
    <<"s", "h", "a", "2", "2", "4", SP, DQ, "a", DQ, LF>>,
    <<"C", "W", "D", "=", DQ, "a", DQ, LF>>,
    <<"C", "W", "D", "=", "/", "b", SP, "a", LF>>,
    <<"C", "W", "D", "=", "a", SP, "/", "b", LF>>,
    <<"C", "W", "D", "=", "A", LF>>,
    Defaults \o <<SP, DQ, "a", DQ, LF>>,
    Defaults \o <<SP, "a", "+", "=", DQ, "a", DQ, ",", "b", "=", "a", LF>>,
    Defaults \o <<":", "a", SP, ",", SP, "/", "b", SP, "a", LF>>,
    Defaults \o <<LF>>,
    <<BS, LF>> \o Defaults \o <<LF>>,
    <<BS, LF>> \o Include \o <<SP, "a", LF>>,
    Include \o <<SP, "/", "b", LF, "a", LF>>,
    <<"%", "a", SP, "+", "a", SP, "%", ":", "a", LF>>,
    <<"%", SP, "+", SP, "%", ":", LF>>,
    <<"/", "b", SP, "^", "a", CR, LF>>,
    <<"/", "b", SP, "^", "a", "#", LF>> }

\* the longest run of '!'
MaxBangs == 4

\* runs of '!' at the beginning of a line, after a word, in a Defaults line,
\* in a string, before a command and in its arguments
BangLines ==
  { b \o Copies("!", n) \o e :
      b \in {<<>>, <<"a", SP>>, <<"a">>, <<BS, LF>>, Defaults, Defaults \o <<SP>>,
             <<DQ>>, <<"/", "b", SP>>, <<"/", "b", SP, "^">>},
      n \in 1..MaxBangs,
      e \in {<<LF>>, <<"a", LF>>, <<SP, "!", "/", "b", LF>>, Defaults \o <<LF>>} }

\* the directives that must begin a logical line
Directives ==
  { <<"@", "i", "n", "c", "l", "u", "d", "e", SP, "a">>,
    <<"@", "i", "n", "c", "l", "u", "d", "e", "d", "i", "r", SP, "a">>,
    <<"#", "i", "n", "c", "l", "u", "d", "e", SP, "a">>,
    <<"#", "i", "n", "c", "l", "u", "d", "e", "d", "i", "r", SP, "a">>,
    <<"D", "e", "f", "a", "u", "l", "t", "s", SP, "a">>,
    <<"H", "o", "s", "t", "_", "A", "l", "i", "a", "s", SP, "A">>,
    <<"C", "m", "n", "d", "_", "A", "l", "i", "a", "s", SP, "A">>,
    <<"C", "m", "d", "_", "A", "l", "i", "a", "s", SP, "A">>,
    <<"U", "s", "e", "r", "_", "A", "l", "i", "a", "s", SP, "A">>,
    <<"R", "u", "n", "a", "s", "_", "A", "l", "i", "a", "s", SP, "A">> }

\* a directive at the beginning of the file, after a line continuation,
\* after a line continuation and a blank, after a word, and after a string
\* that goes over two lines
DirectiveLines ==
  { b \o d \o <<LF>> :
      b \in {<<>>, <<BS, LF>>, <<BS, LF, SP>>, <<SP>>, <<"a", SP>>,
             <<"a", SP, BS, LF>>, <<DQ, "a", BS, LF, DQ, SP>>,
             <<"a", LF, BS, SP, CR, LF>>,
             <<"/", "b", SP, "^", "a", BS, LF, SP, "a", "$", SP>>,
             <<"/", "b", SP, "^", "a", BS, LF, "$", SP>>},
      d \in Directives }

\* strings with a '"' after a backslash, after two backslashes, and with a
\* '"' of their own in the middle
EscapedQuoteLines ==
  { b \o t \o <<LF>> :
      b \in {<<>>, Defaults \o <<SP, "a", "=">>, Include \o <<SP>>},
      t \in {<<DQ, "a", "b", BS, DQ, "c", "d", DQ>>,
             <<DQ, "a", BS, BS, DQ>>,
             <<DQ, "a", BS, BS, DQ, DQ>>,
             <<DQ, BS, DQ, DQ>>,
             <<DQ, BS, DQ, BS, DQ, DQ>>,
             <<DQ, "a", DQ, "b", DQ>>} }

\* the line %wheel ALL=(ALL) NOPASSWD: /bin/ls -l
WheelRule ==
  <<"%", "w", "h", "e", "e", "l", SP, "A", "L", "L", "=", "(", "A", "L", "L", ")">>
    \o <<SP, "N", "O", "P", "A", "S", "S", "W", "D", ":", SP>>
    \o <<"/", "b", "i", "n", "/", "l", "s", SP, "-", "l">>

\* user specifications: that line ended by LF and by CR LF, with a directory
\* and with sudoedit for the command, the command alone
SpecLines ==
  { WheelRule \o <<LF>>, WheelRule \o <<CR, LF>>,
    SubSeq(WheelRule, 1, 27) \o <<"/", "b", "i", "n", "/", SP, "-", "l", LF>>,
    SubSeq(WheelRule, 1, 27) \o
      <<"s", "u", "d", "o", "e", "d", "i", "t", SP, "/", "b", LF>>,
    <<"s", "u", "d", "o", "e", "d", "i", "t", CR, LF>>,
    <<"s", "u", "d", "o", "e", "d", "i", "t", SP, "^", "a", "$", SP, "a", LF>>,
    SubSeq(WheelRule, 1, 34) \o
      <<",", SP, "/", "b", "/", ",", "/", "b", ":", "a", LF>> }

ScannedLines ==
  SpecLines \cup EscapedQuoteLines \cup DirectiveLines \cup CmndLines \cup RegexLines \cup DigestLines \cup OtherLines
    \cup StringLines \cup QuoteLines \cup BangLines

\* a scenario whose files have the bytes text[path]
LexScenario(text, dents) ==
  [main |-> <<LTok>>, acont |-> <<>>, ycont |-> <<>>, dstat |-> "SECURE",
   rd |-> "ok", dents |-> dents, noopen |-> {}, keeps |-> {}, text |-> text]

\* what an included file may hold: a line; a line without its newline;
\* nothing; a command, a string and a word that end in a line continuation
IncludedTexts ==
  { <<"a", LF>>, <<"a">>, <<>>, <<"/", "b", SP, BS, LF>>,
    <<DQ, "a", BS, LF>>, <<"a", BS, LF>>, <<"/", "b", LF, "a", BS, LF>> }

\* the main file includes /a, or the directory /d whose files are a and b,
\* and goes on with a line of its own
IncludeScenarios ==
  { LexScenario((pM :> (Include \o <<SP, "a", LF>> \o m)) @@ (pA :> t), {}) :
      t \in IncludedTexts, m \in {<<"a", LF>>, <<>>} }
  \cup
  { LexScenario((pM :> (Include \o <<"d", "i", "r", SP, "d", LF, "a", LF>>))
                @@ (DirFile(pD, <<"a">>) :> t)
                @@ (DirFile(pD, <<"b">>) :> <<"a", LF>>),
                {[name |-> <<"a">>, reg |-> TRUE],
                 [name |-> <<"b">>, reg |-> TRUE]}) :
      t \in IncludedTexts }

\* main files whose last line has no newline: a '#' that begins no comment
\* in a Defaults line and at the beginning of a line, the same after a line
\* continuation, and a comment
UnendedTexts ==
  { Defaults \o <<SP, "a", "=", "#", "1">>,
    Defaults \o <<SP, "a", BS, LF, "#", "1">>,
    <<"#", "-">>,
    <<BS, LF, "#", "-">>,
    <<"a", LF, "#", "a">> }

LexScenarios ==
  {LexScenario(pM :> t, {}) : t \in ScannedLines \cup UnendedTexts}
    \cup IncludeScenarios

\* the main file is open and nothing of it is read; yylex starts in INITIAL
InitLex ==
  /\ fs \in LexScenarios
  /\ yybuf = <<>>
  /\ sudoers_strict \in IF \E i \in 1..Len(fs.text[pM]) : fs.text[pM][i] = "^"
                        THEN BOOLEAN ELSE {FALSE}
  /\ LexerAtStart
  /\ pc = "lex"
  /\ arg = NoArg
  /\ idepth = 0
  /\ istacksize = 0
  /\ istack = <<>>
  /\ sudoers = pM
  /\ sudolineno = 1
  /\ sudolinebuf = ZeroLine
  /\ keepopen = FALSE
  /\ cur = 1
  /\ fh = <<MainHandle>>
  /\ tokens = <<>>
  /\ pre = <<>>
  /\ dir = NoDir
  /\ rdclosed = FALSE
  /\ perr = ""
  /\ rc = "balanced"
  /\ RestIdle

\* the main files whose parse is given up and begun again
RerunLines ==
  { WheelRule \o <<LF>>,
    <<DQ, "a", BS, LF, "b", DQ, LF>>,
    <<"/", "b", SP, "a", BS, LF, SP, "a", LF>>,
    <<"/", "b", SP, "^", "a", "$", LF>>,
    Defaults \o <<SP, "a", "=", DQ, "a", DQ, LF>>,
    <<"a", BS, LF, "#", "i", "n", "c", "l", "u", "d", "e", SP, "a", LF>> }

RerunScenarios ==
  {LexScenario(pM :> t, {}) : t \in RerunLines} \cup IncludeScenarios

\* the caller gives the first parse up, at any token, and calls init_lexer
GiveUp == (pc # "idle" /\ first = <<>> /\ fs \in RerunScenarios) /\ InitLexer

\* the parser has read an include directive and calls push_include
ParserPush == (pc = "lex" /\ arg # NoArg) /\ CallsPush

NextLex ==
  \/ YY_INPUT \/ yy_match \/ ParserPush \/ GiveUp \/ Restart
  \/ R1012_DefsComma \/ R1017_DefsBlanks \/ R1019_Defvar
  \/ R1028_InDefsComma \/ R1034_InDefsEquals \/ R1039_InDefsPlusEquals
  \/ R1049_InDefsQuote \/ R1056_Envar
  \/ R1065_StrContinuation \/ R1071_EndString \/ R1110_StrBackslash
  \/ R1116_StrBody
  \/ R1248_Include \/ R1260_IncludeDir \/ R1272_HashInclude
  \/ R1288_HashIncludeDir \/ R1304_Defaults \/ R1345_AliasKeyword
  \/ R1454_EmptyGroup \/ R1463_Netgroup \/ R1471_Usergroup
  \/ R1538_Cwd \/ R1603_DefsCommand \/ R1647_ExpectPath \/ R1682_Quote
  \/ R1698_IncPath \/ R1707_IncQuote
  \/ R1124_QuotedGlob \/ R1132_QuotedSpecial \/ R1140_EndOfArgs \/ R1147_Arg
  \/ R1163_RegexQuoted \/ R1170_RegexUnterminated \/ R1181_RegexEnd
  \/ R1195_RegexText
  \/ R1211_HexDigest \/ R1226_Base64Digest
  \/ R1493_Ipv6Addr \/ R1595_Alias
  \/ R1612_Sha224 \/ R1619_Sha256 \/ R1626_Sha384 \/ R1633_Sha512
  \/ R1655_Path \/ R1669_Regex
  \/ R1689_Word
  \/ R1372_Nopasswd \/ R1517_All \/ R1640_Sudoedit
  \/ R1715_LeftParen \/ R1720_RightParen \/ R1725_Comma \/ R1730_Equals \/ R1735_Colon
  \/ R1740_Bangs
  \/ R1747_Newline \/ R1766_Blanks \/ R1770_Continuation \/ R1776_Comment
  \/ R1791_NoMatch \/ R1796_EOF

SpecLex == InitLex /\ [][NextLex]_vars

(* ------------------------- sudoers_input alone ------------------------ *)
\* the longest file read, and the most room yylex has in its buffer
MaxBytes == 5
MaxChunk == 3

\* main files of any bytes: lines with and without a NUL, a last line with
\* and without its newline
InputScenarios ==
  {LexScenario(pM :> t, {}) : t \in SeqsOf({"a", NUL, LF}, 0, MaxBytes)}

InitInput ==
  /\ fs \in InputScenarios
  /\ yybuf = <<>>
  /\ sudoers_strict = FALSE
  /\ LexerAtStart
  /\ pc = "lex"
  /\ arg = NoArg
  /\ idepth = 0
  /\ istacksize = 0
  /\ istack = <<>>
  /\ sudoers = pM
  /\ sudolineno = 1
  /\ sudolinebuf = ZeroLine
  /\ keepopen = FALSE
  /\ cur = 1
  /\ fh = <<MainHandle>>
  /\ tokens = <<>>
  /\ pre = <<>>
  /\ dir = NoDir
  /\ rdclosed = FALSE
  /\ perr = ""
  /\ rc = "balanced"
  /\ RestIdle

\* yylex calls sudoers_input with the room it has, until it returns 0
ReadChunk ==
  /\ yy_buffer_status = "NORMAL"
  /\ \E max_size \in 1..MaxChunk : sudoers_input(max_size)
  /\ yy_buffer_status' = IF yybuf' = yybuf THEN "EOF_PENDING" ELSE "NORMAL"
  /\ UNCHANGED <<fs, pc, arg, idepth, istacksize, istack, sudoers, sudolineno,
                 keepopen, cur, tokens, pre, dir, perr, rc>>
  /\ UNCHANGED <<yy_c_buf_p, yy_start, yy_at_bol, yy_saved, prev_state,
                 continued, sawspace, digest_type, sudoerslval, sudoers_strict,
                 yy_act, out, joined, handed, first>>
  /\ UNCHANGED restvars

NextInput == ReadChunk

SpecInput == InitInput /\ [][NextInput]_vars

(* ============================== claims ================================ *)

(* C1: nested pushes succeed while the depth before the push is below 128,
   the push attempted at depth 128 fails with "too many levels of
   includes", and so idepth never exceeds 128. *)
C1_DepthBound ==
  /\ idepth <= MAX_SUDOERS_DEPTH
  /\ (pc = "fatal" /\ perr = "too many levels of includes"
        => idepth = MAX_SUDOERS_DEPTH)

\* what the code does: the depth test is made only when the stack is full,
\* so the stack grows to the first multiple of 16 above 128
C1_CodeDepthBound ==
  /\ idepth <= MAX_SUDOERS_DEPTH + SUDOERS_STACK_INCREMENT
  /\ (pc = "fatal" /\ perr = "too many levels of includes"
        => idepth = MAX_SUDOERS_DEPTH + SUDOERS_STACK_INCREMENT)

C1_Witness ==
  pc = "fatal" /\ perr = "too many levels of includes" /\ Len(tokens) > 1

(* C2: the eligible regular files of an include directory become the
   current source in ascending strcmp order of their paths, each once,
   whatever order readdir returned them in; ineligible names and entries
   that are not regular files are never opened. *)
Eligible(e) ==
  /\ e.reg
  /\ e.name # <<>>
  /\ e.name[Len(e.name)] # "~"
  /\ \A i \in 1..Len(e.name) : e.name[i] # "."

EligiblePaths == {DirFile(pD, e.name) : e \in {x \in fs.dents : Eligible(x)}}

C2_DirOrder ==
  /\ \A i \in 1..(Len(dir.log) - 1) : strcmp(dir.log[i], dir.log[i + 1]) < 0
  /\ \A h \in DOMAIN fh :
       \A e \in fs.dents : ~Eligible(e) => fh[h].path # DirFile(pD, e.name)
  /\ (dir.done /\ fs.noopen = {}
        => {dir.log[i] : i \in 1..Len(dir.log)} = EligiblePaths)

\* a directory with several files and an ineligible entry was read in an
\* order that is not the sorted one, and all its files have been parsed
C2_Witness ==
  /\ dir.done /\ fs.noopen = {}
  /\ Len(dir.log) >= 2
  /\ dir.files # dir.log
  /\ \E e \in fs.dents : ~Eligible(e)

(* C3: push_include on a directory that sudo_secure_dir does not report
   secure returns true and leaves idepth, the current path, the line
   number, the line buffer and every stack frame as they were. *)
C3_InsecureDirSkipped ==
  [][ ( /\ pc = "push" /\ pc' # "idle" /\ arg.isdir
        /\ sudo_secure_dir(fs, expand_include(arg.path, sudoers)) # "SECURE"
        /\ perr' \notin {"unable to allocate memory",
                         "too many levels of includes"} )
      => ( /\ pc' = "lex"
           /\ UNCHANGED <<idepth, sudoers, sudolineno, sudolinebuf, istack,
                          cur, tokens>> ) ]_vars

\* an insecure directory was skipped at depth 1 and the including file is
\* being read again
C3_Witness ==
  /\ pc = "lex" /\ idepth = 1
  /\ perr \in SecureStatus \ {"SECURE"}
  /\ sudolinebuf.len > 0


(* C4: tokens are delivered in include-expanded order, and end-of-input is
   reported only at EOF at depth 0, with no frame and no pending directory
   entry left. *)
\* the paths of the finite set S in ascending strcmp order
Ascending(S) ==
  CHOOSE p \in Perms(S) : \A i \in 1..(Len(p) - 1) : strcmp(p[i], p[i + 1]) < 0

RECURSIVE Openable(_, _)
Openable(f, list) ==
  IF list = <<>> THEN <<>>
  ELSE IF Exists(f, Head(list)) /\ Head(list) \notin f.noopen
       THEN <<Head(list)>> \o Openable(f, Tail(list))
  ELSE Openable(f, Tail(list))

ExpJoin(r1, r2) ==
  IF r1.ok THEN [toks |-> r1.toks \o r2.toks, ok |-> r2.ok, cut |-> r2.cut]
  ELSE r1

\* the expanded text of file path from its line i on, read at depth d: the
\* ordinary lines in order, up to the end (ok), to a fatal include error, or
\* to an include nested deeper than MaxExpand (cut)
RECURSIVE Expand(_, _, _, _)
RECURSIVE ExpandList(_, _, _)
Expand(f, path, i, d) ==
  IF i > Len(Lines(f, path)) THEN [toks |-> <<>>, ok |-> TRUE, cut |-> FALSE]
  ELSE
    LET ln == Lines(f, path)[i]
        t == expand_include(ln.p, path)
        stop == [toks |-> <<>>, ok |-> FALSE, cut |-> FALSE]
        deep == [toks |-> <<>>, ok |-> FALSE, cut |-> TRUE]
    IN  CASE ln.k = "tok" ->
               ExpJoin([toks |-> <<<<path, i>>>>, ok |-> TRUE, cut |-> FALSE],
                       Expand(f, path, i + 1, d))
          [] ln.k = "inc" ->
               IF t = <<>> \/ ~(Exists(f, t) /\ t \notin f.noopen) THEN stop
               ELSE IF d >= MaxExpand THEN deep
               ELSE ExpJoin(Expand(f, t, 1, d + 1), Expand(f, path, i + 1, d))
          [] ln.k = "incdir" ->
               IF t = <<>> THEN stop
               ELSE IF d >= MaxExpand THEN deep
               ELSE IF t # pD \/ f.dstat # "SECURE" \/ f.rd = "enoent"
                    THEN Expand(f, path, i + 1, d)
               ELSE IF f.rd # "ok" THEN stop
               ELSE ExpJoin(
                      ExpandList(f,
                        Openable(f, Ascending(
                          {DirFile(pD, e.name) :
                             e \in {x \in f.dents : Eligible(x)}})),
                        d + 1),
                      Expand(f, path, i + 1, d))
ExpandList(f, list, d) ==
  IF list = <<>> THEN [toks |-> <<>>, ok |-> TRUE, cut |-> FALSE]
  ELSE ExpJoin(Expand(f, Head(list), 1, d), ExpandList(f, Tail(list), d))

C4_IncludeOrder ==
  LET e == Expand(fs, pM, 1, 0)
  IN  /\ IsPrefix(tokens, e.toks) \/ (e.cut /\ IsPrefix(e.toks, tokens))
      /\ (pc = "done" => idepth = 0 /\ istack = <<>> /\ e.ok /\ tokens = e.toks)

\* end-of-input after a directory whose second file includes /b, between
\* two lines of the main file
C4_Witness ==
  /\ pc = "done"
  /\ Len(tokens) >= 6
  /\ tokens[1][1] = pM /\ tokens[Len(tokens)][1] = pM
  /\ \E i \in 1..Len(tokens) : tokens[i][1] = pB
  /\ \E i \in 1..Len(tokens) : tokens[i] = <<DirFile(pD, <<"b">>), 3>>

(* C5: push/pop round trip: when an included file reaches EOF with no
   pending directory entry, the current path, the line number and the line
   buffer are what they were just before the push, and so is idepth. *)
C5_RoundTrip ==
  [][ (pc = "lex" /\ pc' = "lex" /\ idepth' = idepth - 1)
      => LET b == pre[Len(pre)]
         IN  /\ sudoers' = b.path
             /\ sudolineno' = b.lineno
             /\ sudolinebuf' = b.line
             /\ idepth' = b.idepth ]_vars

\* back in a file at depth 1 after a nested include: its directive line is
\* in the line buffer again
C5_Witness ==
  /\ pc = "lex" /\ idepth = 1
  /\ Len(fh) >= 3 /\ fh[3].pos > 0
  /\ sudoers = pA
  /\ sudolinebuf.buf = <<pA, 2>> /\ sudolinebuf.off = sudolinebuf.len
  /\ sudolineno = 3

(* C6: for any finite set of files, cyclic includes among them, repeated
   next-token calls reach end-of-input or a fatal include error. *)
C6_Terminates == <>(pc \in {"done", "fatal"})

\* the self-including file was unwound by the depth limit
C6_Witness ==
  /\ pc = "fatal" /\ perr = "too many levels of includes"
  /\ idepth > MAX_SUDOERS_DEPTH

(* C7: every handle opened for an include whose keep-open flag is false is
   closed exactly once, by pop_include at its EOF or by init_lexer, is never
   read after being closed, and none remains open after init_lexer. *)
C7_HandlesClosedOnce ==
  /\ ~rdclosed
  /\ \A h \in 2..Len(fh) :
       ~fh[h].keep =>
         /\ fh[h].nclose <= 1
         /\ (pc \in {"done", "idle"} => ~fh[h].open /\ fh[h].nclose = 1)

\* a step of yylex that runs the action of the rule it has matched
RuleRuns == pc = "lex" /\ yy_act # NoRule /\ yy_act' = NoRule

\* the characters that end the arguments of a command
ArgEnders == {"#", ":", ",", "=", CR, LF}

(* C8: in GOTCMND an unescaped # : , = CR or LF ends the argument list:
   COMMAND is returned, the state becomes INITIAL and the character is left
   to be scanned in INITIAL; no rule consumes such a character unless a
   backslash precedes it (a text that starts with a backslash, such as a
   line continuation, counts as escaped throughout). *)
C8_EndersEndArguments ==
  [][(RuleRuns /\ yy_start = "GOTCMND" /\ sudoerstext[1] # BS) =>
       /\ sudoerstext[1] \in ArgEnders =>
            /\ out' = Append(out, "COMMAND")
            /\ yy_start' = "INITIAL"
            /\ yy_c_buf_p' = yy_c_buf_p
       /\ \A i \in yy_c_buf_p .. yy_c_buf_p' - 1 :
            yybuf[i] \in ArgEnders => yybuf[i - 1] = BS]_vars

(* C9: in strict mode, at the unescaped '$' that ends a regex in GOTREGEX,
   the regex compiler is handed the whole accumulated regex, from '^' to
   '$', and a regex it rejects yields ERROR instead of COMMAND. *)
C9_StrictChecksWholeRegex ==
  [][(R1181_RegexEnd /\ sudoers_strict /\ pc' = "lex") =>
       /\ handed' = Append(handed, sudoerslval'.command.args)
       /\ ~sudo_regex_compile(sudoerslval'.command.args) =>
            out' = Append(out, "ERROR")]_vars

(* C10: a hex or base64 run matched in WANTDIGEST that has the wrong length
   for the pending algorithm is pushed back and scanned again in INITIAL:
   the scanner stays where the run starts. *)
C10_WrongLengthPushedBack ==
  [][/\ (R1211_HexDigest /\ sudoersleng # HexLen =>
           yy_start' = "INITIAL" /\ yy_c_buf_p' = yy_c_buf_p)
     /\ (R1226_Base64Digest /\ sudoersleng # Base64Len =>
           yy_start' = "INITIAL" /\ yy_c_buf_p' = yy_c_buf_p)]_vars

\* the characters of a base64 digest
Base64Alphabet == upper \cup lower \cup digit \cup {"+", "/", "="}

\* the length of the longest run of hex digits of the buffer that starts at p
HexRunAt(p) ==
  CHOOSE n \in 0..(Len(yybuf) + 1 - p) :
    /\ \A i \in p..(p + n - 1) : yybuf[i] \in xdigit
    /\ p + n <= Len(yybuf) => yybuf[p + n] \notin xdigit

\* the scanner is in WANTDIGEST at the start of a run of hex digits which a
\* character outside the base64 alphabet follows
AtDelimitedHexRun ==
  /\ yy_start = "WANTDIGEST"
  /\ HexRunAt(yy_c_buf_p) > 0
  /\ yy_c_buf_p + HexRunAt(yy_c_buf_p) <= Len(yybuf)
  /\ yybuf[yy_c_buf_p + HexRunAt(yy_c_buf_p)] \notin Base64Alphabet
  /\ yy_c_buf_p > 1 => yybuf[yy_c_buf_p - 1] \notin Base64Alphabet

(* C11: in WANTDIGEST a run of hex digits delimited by a character outside
   the base64 alphabet is returned as DIGEST exactly when its length is
   twice the digest size of the pending algorithm; a run of a length that is
   neither the hex nor the base64 length never gives a DIGEST; the start
   condition afterwards is INITIAL in every case. *)
C11_DigestIffLength ==
  [][/\ (RuleRuns /\ AtDelimitedHexRun /\ pc' = "lex") =>
          /\ (out' = Append(out, "DIGEST")) <=> (HexRunAt(yy_c_buf_p) = HexLen)
          /\ yy_start' = "INITIAL"
     /\ (RuleRuns /\ yy_start = "WANTDIGEST"
           /\ sudoersleng \notin {HexLen, Base64Len}) =>
          out' # Append(out, "DIGEST")]_vars

\* the scanner is at an unescaped line break: LF, or CR LF
AtLineBreak ==
  /\ yy_c_buf_p <= Len(yybuf)
  /\ \/ yybuf[yy_c_buf_p] = LF
     \/ /\ yybuf[yy_c_buf_p] = CR
        /\ yy_c_buf_p < Len(yybuf)
        /\ yybuf[yy_c_buf_p + 1] = LF

\* the number of line breaks among the first n characters of the buffer
LineBreaksIn(n) == Cardinality({i \in 1..n : yybuf[i] = LF})

(* C12: at an unescaped line break in INSTR the scanner returns ERROR,
   discards the string, enters INITIAL and stays at the line break; the
   line break is then returned as the newline token and counted once, and
   the scanner is in INITIAL for what follows. *)
C12_LineBreakInString ==
  [][/\ (RuleRuns /\ yy_start = "INSTR" /\ AtLineBreak) =>
          /\ out' = Append(out, "ERROR")
          /\ sudoerslval'.string = <<>>
          /\ yy_start' = "INITIAL"
          /\ yy_c_buf_p' = yy_c_buf_p
          /\ sudolineno' = sudolineno
     /\ (RuleRuns /\ yy_start = "INITIAL" /\ AtLineBreak
           /\ out # <<>> /\ Last(out) = "ERROR"
           /\ sudolinebuf.toke_start = sudolinebuf.toke_end) =>
          /\ out' = Append(out, LF)
          /\ sudolineno' = sudolineno + 1
          /\ Len(fh) = 1 => sudolineno' = 1 + LineBreaksIn(yy_c_buf_p' - 1)
          /\ yy_c_buf_p' > yy_c_buf_p
          /\ yybuf[yy_c_buf_p' - 1] = LF
          /\ yy_start' = "INITIAL"
          /\ ~continued']_vars

\* the string "ab cut by the end of its line has given ERROR and newline,
\* and the command of the next line is scanned from INITIAL
C12_Witness ==
  /\ yybuf = <<DQ, "a", LF, "/", "b", LF>>
  /\ out = <<"ERROR", LF>>
  /\ yy_c_buf_p = 4
  /\ yy_start = "INITIAL"
  /\ sudolineno = 2

\* the strings that are a group or netgroup marker and nothing else
EmptyGroups == {<<"%">>, <<"%", ":">>, <<"+">>}

(* C13 (amended): when a string begun in INITIAL or GOTDEFS is closed, an
   empty string gives ERROR, and so do the strings "%", "%:" and "+"; any
   other string that begins with '%' gives USERGROUP, any other that begins
   with '+' gives NETGROUP, and every other string gives WORD. *)
C13_ClosedString ==
  [][(R1071_EndString /\ prev_state \in {"INITIAL", "GOTDEFS"}) =>
       out' = Append(out,
                     LET str == sudoerslval.string
                     IN  CASE str = <<>> -> "ERROR"
                           [] str \in EmptyGroups -> "ERROR"
                           [] str # <<>> /\ str \notin EmptyGroups
                                /\ str[1] = "%" -> "USERGROUP"
                           [] str # <<>> /\ str \notin EmptyGroups
                                /\ str[1] = "+" -> "NETGROUP"
                           [] OTHER -> "WORD")]_vars

\* the string "%:" begun in INITIAL has been closed and has given ERROR
C13_Witness ==
  /\ yybuf = <<DQ, "%", ":", DQ, LF>>
  /\ yy_c_buf_p = 5
  /\ out = <<"ERROR">>
  /\ yy_start = "INITIAL"

(* C13 as stated: the strings "%", "%:" and "+" give WORD. *)
C13_Original ==
  [][(R1071_EndString /\ prev_state \in {"INITIAL", "GOTDEFS"}) =>
       out' = Append(out,
                     LET str == sudoerslval.string
                     IN  CASE str = <<>> -> "ERROR"
                           [] str \in EmptyGroups -> "WORD"
                           [] str # <<>> /\ str \notin EmptyGroups
                                /\ str[1] = "%" -> "USERGROUP"
                           [] str # <<>> /\ str \notin EmptyGroups
                                /\ str[1] = "+" -> "NETGROUP"
                           [] OTHER -> "WORD")]_vars

(* C14 (amended): INSTR is entered only on a '"' seen in INITIAL, GOTDEFS,
   GOTINC or INDEFS; in STARTDEFS, GOTCMND, GOTREGEX, WANTDIGEST and
   EXPECTPATH a '"' does not begin a string. *)
C14_StringEntry ==
  [][/\ (RuleRuns /\ yy_start # "INSTR" /\ yy_start' = "INSTR") =>
          /\ sudoerstext = <<DQ>>
          /\ yy_start \in {"INITIAL", "GOTDEFS", "GOTINC", "INDEFS"}
     /\ (RuleRuns /\ yy_c_buf_p <= Len(yybuf) /\ yybuf[yy_c_buf_p] = DQ
           /\ yy_start \in {"STARTDEFS", "GOTCMND", "GOTREGEX", "WANTDIGEST",
                            "EXPECTPATH"}) =>
          yy_start' # "INSTR"]_vars

\* a string has just begun in INDEFS
C14_Witness ==
  /\ yy_start = "INSTR"
  /\ prev_state = "INDEFS"
  /\ yybuf[yy_c_buf_p - 1] = DQ
  /\ out = <<"DEFAULTS", "DEFVAR", "=">>

(* C14 as stated: INSTR is entered only from INITIAL, GOTDEFS or GOTINC; a
   '"' in INDEFS does not begin a string. *)
C14_Original ==
  [][/\ (RuleRuns /\ yy_start # "INSTR" /\ yy_start' = "INSTR") =>
          /\ sudoerstext = <<DQ>>
          /\ yy_start \in {"INITIAL", "GOTDEFS", "GOTINC"}
     /\ (RuleRuns /\ yy_c_buf_p <= Len(yybuf) /\ yybuf[yy_c_buf_p] = DQ
           /\ yy_start \in {"STARTDEFS", "INDEFS", "GOTCMND", "GOTREGEX",
                            "WANTDIGEST", "EXPECTPATH"}) =>
          yy_start' # "INSTR"]_vars

(* C15: the one prev_state slot is enough: the rule that begins a string or
   the path after CWD notes the start condition it runs in (INITIAL for a
   string begun in GOTINC); no rule that runs in INSTR or EXPECTPATH writes
   the slot, so no second sub-scan begins inside one; and the closing quote,
   or the path or word after CWD, brings back the noted start condition. *)
C15_OneSlotSuffices ==
  [][/\ (RuleRuns /\ yy_start \notin {"INSTR", "EXPECTPATH"}
           /\ yy_start' \in {"INSTR", "EXPECTPATH"}) =>
          prev_state' = IF yy_start = "GOTINC" THEN "INITIAL" ELSE yy_start
     /\ (RuleRuns /\ yy_start \in {"INSTR", "EXPECTPATH"}) =>
          prev_state' = prev_state
     /\ (R1071_EndString \/ (R1647_ExpectPath /\ pc' = "lex")) =>
          yy_start' = prev_state]_vars

\* a string begun in INDEFS has been closed and the scanner is in INDEFS
\* again
C15_Witness ==
  /\ yybuf = Defaults \o <<SP, "a", "=", DQ, "a", DQ, LF>>
  /\ out = <<"DEFAULTS", "DEFVAR", "=", "WORD">>
  /\ yy_start = "INDEFS"
  /\ prev_state = "INDEFS"

(* C16: in GOTREGEX a CR, an LF (a CR LF pair as well) or a '#' met before
   the unescaped '$' returns ERROR, sets the start condition to INITIAL and
   is left to be scanned next; GOTREGEX is entered only from GOTCMND when
   the first argument begins with '^', and left only by this error or by
   the unescaped '$' that returns COMMAND. *)
C16_RegexUnterminated ==
  [][/\ (RuleRuns /\ yy_start = "GOTREGEX" /\ yy_c_buf_p <= Len(yybuf)
           /\ yybuf[yy_c_buf_p] \in {CR, LF, "#"}) =>
          /\ out' = Append(out, "ERROR")
          /\ yy_start' = "INITIAL"
          /\ yy_c_buf_p' = yy_c_buf_p
     /\ (RuleRuns /\ yy_start # "GOTREGEX" /\ yy_start' = "GOTREGEX") =>
          /\ yy_start = "GOTCMND"
          /\ sudoerslval.command.args = <<>>
          /\ yybuf[yy_c_buf_p] = "^"
     /\ (RuleRuns /\ yy_start = "GOTREGEX" /\ yy_start' # "GOTREGEX") =>
          \/ /\ yy_c_buf_p <= Len(yybuf)
             /\ yybuf[yy_c_buf_p] \in {CR, LF, "#"}
             /\ out' = Append(out, "ERROR")
          \/ /\ sudoerstext = <<"$">>
             /\ out' = Append(out, "COMMAND")]_vars

\* a step of push_include that pushes a frame
Pushes == pc = "push" /\ idepth' = idepth + 1

\* a step of pop_include at the end of the current source
PopsAtEOF ==
  /\ pc = "lex" /\ pc' = "lex"
  /\ idepth > 0
  /\ fh[cur].pos = Len(Lines(fs, fh[cur].path))

(* C17: the keep-open flag push_include stores in the new slot is the flag
   of the suspended source, as it was before open_sudoers was called for
   the included file; the pop that returns to the suspended source takes
   the flag from the slot, so it has its value of before the push; and a
   source is closed at its end exactly when its own flag is false. *)
C17_KeepOpenSaved ==
  [][/\ Pushes => istack'[idepth'].keepopen = keepopen
     /\ (PopsAtEOF /\ idepth' = idepth - 1) =>
          keepopen' = istack[idepth].keepopen
     /\ PopsAtEOF => (~fh'[cur].open <=> ~fh[cur].keep)]_vars

\* the place in list of the first entry open_sudoers can open, 0 when it
\* can open none
FirstOpen(list) ==
  LET I == {i \in 1..Len(list) : Exists(fs, list[i]) /\ list[i] \notin fs.noopen}
  IN  IF I = {} THEN 0 ELSE CHOOSE i \in I : \A j \in I : i <= j

\* push_include has a path and room on the stack
PushGetsThrough ==
  /\ pc = "push" /\ pc' # "idle"
  /\ expand_include(arg.path, sudoers) # <<>>
  /\ perr' \notin {"unable to allocate memory", "too many levels of includes"}

(* C18: the pending entries of a directory are tried in list order and one
   that open_sudoers cannot open is dropped without a parse error: by
   push_include, which makes the first entry it can open the current source
   and returns true with depth and source unchanged when it can open none;
   and by pop_include at the end of a file of the directory, which goes on
   with the next entry it can open at the same depth, with line number 1 and
   an empty line buffer. *)
C18_UnopenableDropped ==
  [][/\ (/\ PushGetsThrough /\ arg.isdir
         /\ DirIsSecure(sudo_secure_dir(fs, expand_include(arg.path, sudoers)))
         /\ fs.rd = "ok") =>
          LET list == switch_dir(expand_include(arg.path, sudoers), dir'.order)
              k == FirstOpen(list)
          IN  /\ pc' = "lex"
              /\ perr' = ""
              /\ IF k = 0
                 THEN UNCHANGED <<idepth, sudoers, cur, sudolineno, sudolinebuf,
                                  istack>>
                 ELSE /\ idepth' = idepth + 1
                      /\ sudoers' = list[k]
                      /\ fh'[cur'].path = list[k]
                      /\ istack'[idepth'].more = SubSeq(list, k + 1, Len(list))
     /\ (PopsAtEOF /\ istack[idepth].more # <<>>) =>
          LET list == istack[idepth].more
              k == FirstOpen(list)
          IN  /\ perr' = perr
              /\ IF k = 0 THEN idepth' = idepth - 1
                 ELSE /\ idepth' = idepth
                      /\ sudoers' = list[k]
                      /\ fh'[cur'].path = list[k]
                      /\ istack'[idepth].more = SubSeq(list, k + 1, Len(list))
                      /\ sudolineno' = 1
                      /\ sudolinebuf'.len = 0 /\ sudolinebuf'.off = 0
                      /\ sudolinebuf'.toke_start = 0
                      /\ sudolinebuf'.toke_end = 0]_vars

\* pop_include has dropped the entry /d/a, which cannot be opened, and gone
\* on with /d/b after /d/B
C18_Witness ==
  /\ idepth = 1
  /\ dir.log = <<DirFile(pD, <<"B">>), DirFile(pD, <<"b">>)>>
  /\ sudoers = DirFile(pD, <<"b">>)
  /\ [name |-> <<"a">>, reg |-> TRUE] \in fs.dents
  /\ DirFile(pD, <<"a">>) \in fs.noopen
  /\ sudolineno = 1
  /\ perr = ""

(* C19: push_include(path, isdir = false) whose target cannot be opened
   raises a parse error and returns false; idepth, the current source, the
   line number and the line buffer stay as they are and no frame is pushed;
   for a directory whose entries cannot be opened it returns true. *)
C19_OpenFailureIsError ==
  [][/\ (/\ PushGetsThrough /\ ~arg.isdir
         /\ FirstOpen(<<expand_include(arg.path, sudoers)>>) = 0) =>
          /\ pc' = "fatal"
          /\ perr' = "open"
          /\ UNCHANGED <<idepth, sudoers, cur, sudolineno, sudolinebuf, istack>>
     /\ (/\ PushGetsThrough /\ arg.isdir /\ fs.rd = "ok"
         /\ FirstOpen(switch_dir(expand_include(arg.path, sudoers),
                                 dir'.order)) = 0) =>
          pc' = "lex"]_vars

\* the include of the missing file /n by /a has failed at depth 1
C19_Witness ==
  /\ pc = "fatal"
  /\ perr = "open"
  /\ idepth = 1
  /\ sudoers = pA

(* C20: the reference counts of the path strings are balanced: no string
   is released twice, no string that sudoers, a stack frame or a pending
   list points to has been freed, and when push_include, pop_include or
   init_lexer returns, every string it allocated or took off a pending list
   and gave to none of them has been released. *)
C20_RefCountsBalanced == rc = "balanced"

\* push_include has returned early from a directory with several files of
\* which none can be opened; a pop and an init_lexer have happened too
C20_Witness ==
  /\ rc = "balanced"
  /\ pc = "idle"
  /\ dir.done /\ dir.log = <<>> /\ Len(dir.files) >= 2

\* the number of '!' in yybuf from position p on
RECURSIVE BangRun(_)
BangRun(p) ==
  IF p <= Len(yybuf) /\ yybuf[p] = "!" THEN 1 + BangRun(p + 1) ELSE 0

\* the scanner has matched a rule at a '!', in INITIAL
AtBangs ==
  /\ pc = "lex" /\ yy_act # NoRule /\ yy_start = "INITIAL"
  /\ yy_c_buf_p <= Len(yybuf) /\ yybuf[yy_c_buf_p] = "!"

(* C24: in INITIAL a run of n >= 1 '!' is taken whole by the <*>!+ rule,
   which returns one '!' when n is odd and nothing when n is even, and
   changes neither the start condition nor prev_state, continued, sawspace,
   digest_type, sudolineno or the token value. *)
C24_BangRuns ==
  [][(AtBangs /\ RuleRuns) =>
       /\ yy_act.line = 1740
       /\ yy_act.len = BangRun(yy_c_buf_p)
       /\ yy_c_buf_p' = yy_c_buf_p + BangRun(yy_c_buf_p)
       /\ out' = IF BangRun(yy_c_buf_p) % 2 = 1 THEN Append(out, "!") ELSE out
       /\ UNCHANGED <<yy_start, prev_state, continued, sawspace, digest_type,
                      sudolineno, sudoerslval, pc>>]_vars

\* "!!" and then "!" have been scanned in INITIAL: one '!' for both
C24_Witness ==
  /\ yybuf = <<"!", "!", SP, "!", "/", "b", LF>>
  /\ yy_c_buf_p = 5 /\ yy_act = NoRule
  /\ out = <<"!">> /\ yy_start = "INITIAL" /\ ~continued

\* the rules of @include, @includedir, ^#include, ^#includedir, Defaults and
\* the alias keywords
DirectiveRules == {1248, 1260, 1272, 1288, 1304, 1345}

(* C25: when a line continuation has been consumed since the latest newline
   token, the rules of @include, @includedir, ^#include, ^#includedir,
   Defaults and the alias keywords return ERROR and leave the start
   condition INITIAL. *)
C25_NoDirectiveAfterContinuation ==
  [][(RuleRuns /\ yy_act.line \in DirectiveRules /\ joined) =>
       /\ out' = Append(out, "ERROR")
       /\ yy_start = "INITIAL" /\ yy_start' = "INITIAL"]_vars


\* the line "ab\"cd"
AbQuoteCd == <<DQ, "a", "b", BS, DQ, "c", "d", DQ, LF>>

(* C26: in a string a '"' is taken by the rule that closes the string
   exactly when the scanner stands at it; every other '"' a rule of INSTR
   consumes comes right after a backslash in that rule's text, and only the
   closing '"' and a line break leave INSTR.  The line "ab\"cd" scanned from
   INITIAL gives one WORD, whose text is ab"cd, and then the newline. *)
C26_EscapedQuote ==
  [][/\ (RuleRuns /\ yy_start = "INSTR" /\ yy_c_buf_p <= Len(yybuf)) =>
          /\ (yy_act.line = 1071) = (yybuf[yy_c_buf_p] = DQ)
          /\ yy_act.line # 1071 =>
               \A i \in 1..sudoersleng :
                 sudoerstext[i] = DQ => i > 1 /\ sudoerstext[i - 1] = BS
          /\ yy_start' # "INSTR" => yy_act.line \in {1071, 1747}
     /\ (RuleRuns /\ yybuf = AbQuoteCd /\ out' # out) =>
          \/ /\ out' = <<"WORD">>
             /\ yy_act.line = 1071
             /\ sudoerslval'.string = <<"a", "b", DQ, "c", "d">>
          \/ /\ out' = <<"WORD", LF>>
             /\ yy_c_buf_p' = Len(yybuf) + 1]_vars

\* "ab\"cd" has been scanned to its end: WORD and the newline
C26_Witness ==
  /\ yybuf = AbQuoteCd
  /\ yy_c_buf_p = Len(yybuf) + 1
  /\ out = <<"WORD", LF>>
  /\ sudoerslval.string = <<"a", "b", DQ, "c", "d">>
  /\ yy_start = "INITIAL"

\* the scanner is about to return the token of the operand of @include or
\* @includedir: a bare path, or the closing '"' of a string that is not empty
ReturnsIncludeOperand ==
  /\ RuleRuns /\ pc' = "lex"
  /\ out # <<>> /\ out[Len(out)] \in {"INCLUDE", "INCLUDEDIR"}
  /\ \/ yy_act.line = 1698
     \/ yy_act.line = 1071 /\ sudoerslval.string # <<>>

(* C30: the operand of @include and @includedir, bare or in double quotes
   and whatever its first character, is returned as WORD, and the start
   condition becomes INITIAL. *)
C30_IncludeOperandIsWord ==
  [][ReturnsIncludeOperand =>
       out' = Append(out, "WORD") /\ yy_start' = "INITIAL"]_vars

\* the tokens of the line %wheel ALL=(ALL) NOPASSWD: /bin/ls -l
WheelTokens ==
  <<"USERGROUP", "ALL", "=", "(", "ALL", ")", "NOPASSWD", "COMMAND", LF>>

(* C27: the line %wheel ALL=(ALL) NOPASSWD: /bin/ls -l scanned from INITIAL
   gives USERGROUP, ALL, '=', '(', ALL, ')', NOPASSWD, COMMAND and the
   newline in this order, the command being /bin/ls with the argument text
   -l.  The {PATH} rule returns COMMAND at once, without a change of start
   condition, for a path that ends in '/'; for any other path it returns
   nothing and enters GOTCMND, where COMMAND is returned only by the rule
   that stands at a terminator of the arguments, or at the '$' that ends
   arguments that are a regular expression. *)
C27_CommandAtTerminator ==
  [][/\ (RuleRuns /\ yybuf = WheelRule \o <<LF>> /\ out' # out) =>
          /\ Len(out') <= Len(WheelTokens)
          /\ out' = SubSeq(WheelTokens, 1, Len(out'))
          /\ Len(out') = 8 =>
               sudoerslval'.command =
                 [cmnd |-> SubSeq(WheelRule, 28, 34), args |-> <<"-", "l">>]
     /\ (RuleRuns /\ yy_act.line = 1655 /\ pc' = "lex") =>
          IF sudoerstext[sudoersleng] = "/"
          THEN out' = Append(out, "COMMAND") /\ yy_start' = yy_start
          ELSE out' = out /\ yy_start' = "GOTCMND"
     /\ (/\ RuleRuns /\ yy_start \in {"GOTCMND", "GOTREGEX"}
         /\ out' = Append(out, "COMMAND")) =>
          \/ yy_act.line = 1140 /\ yybuf[yy_c_buf_p] \in ArgEnders
          \/ yy_act.line = 1181 /\ yybuf[yy_c_buf_p] = "$"]_vars

\* the line has been scanned to its end
C27_Witness ==
  /\ yybuf = WheelRule \o <<LF>>
  /\ out = WheelTokens
  /\ sudoerslval.command =
       [cmnd |-> <<"/", "b", "i", "n", "/", "l", "s">>, args |-> <<"-", "l">>]

\* the start conditions in which the arguments of a command are collected
InCommand == {"GOTCMND", "GOTREGEX"}

(* C28: once the scanner has entered GOTCMND for a command it has
   recognized, a rule either stays with the arguments and returns neither
   COMMAND, ERROR nor the newline token, or it returns COMMAND or ERROR and
   goes back to INITIAL: exactly one COMMAND or ERROR is returned for the
   command, before the newline token of its line. *)
C28_CommandNotDropped ==
  [][(RuleRuns /\ yy_start \in InCommand /\ pc' = "lex") =>
       \/ /\ yy_start' \in InCommand
          /\ out' = out \/ out' = Append(out, "NOMATCH")
       \/ /\ yy_start' = "INITIAL"
          /\ out' \in {Append(out, "COMMAND"), Append(out, "ERROR")}]_vars

(* C22: in every reachable state toke_start <= toke_end <= len for the
   current line buffer, also after sudoersless, after a token that spans a
   refill of the line and after a push or pop of an include frame. *)
C22_TokenOffsetsInLine ==
  /\ sudolinebuf.toke_start <= sudolinebuf.toke_end
  /\ sudolinebuf.toke_end <= sudolinebuf.len

(* C29: lexical context never crosses a file boundary: when the end of an
   included file makes the scanner go on in another source, the next entry
   of the directory or the parent, the start condition is INITIAL and
   continued is false. *)
C29_ContextStaysInFile ==
  [][(R1796_EOF /\ idepth > 0) =>
       (yy_start' = "INITIAL" /\ continued' = FALSE)]_vars

\* the configuration the claim lists
InitialConfiguration ==
  /\ yy_start = "INITIAL"
  /\ prev_state = "INITIAL"
  /\ continued = FALSE
  /\ sawspace = FALSE
  /\ digest_type = -1
  /\ sudolineno = 1
  /\ idepth = 0
  /\ istacksize = 0
  /\ istack = <<>>
  /\ sudolinebuf = ZeroLine
  /\ keepopen = FALSE

(* C23: after init_lexer the start condition and prev_state are INITIAL,
   continued and sawspace are false, digest_type is -1, the line number is
   1, the include stack is empty with istacksize 0, the line buffer is empty
   and keepopen is false; and the parse begun after it returns the tokens
   the parse before it returned: as far as both have come the two sequences
   agree, a parse that comes to the end of the input returns at least what a
   parse that was given up had returned, and nothing more than a parse that
   had come to the end itself. *)
C23_InitLexerResets ==
  /\ pc = "idle" => InitialConfiguration
  /\ (first # <<>> /\ pc # "idle") =>
       /\ IsPrefix(out, first[1].toks) \/ IsPrefix(first[1].toks, out)
       /\ first[1].whole => IsPrefix(out, first[1].toks)
       /\ RanToEnd => IsPrefix(first[1].toks, out)

\* a parse given up inside the included file /a, after the first word of
\* /a, and the parse after it at the end of the main file
C23_Witness ==
  /\ first # <<>>
  /\ first[1].toks = <<"INCLUDE", "WORD", LF, "WORD">>
  /\ RanToEnd
  /\ out = <<"INCLUDE", "WORD", LF, "WORD", LF, "WORD", LF>>

\* a line as the claim says it is handed on: cut at its first NUL, which
\* becomes the newline, and with a newline added when it has none
HandedLine(raw) ==
  IF \E i \in 1..Len(raw) : raw[i] = NUL
  THEN LET k == CHOOSE i \in 1..Len(raw) :
                  raw[i] = NUL /\ \A j \in 1..(i - 1) : raw[j] # NUL
       IN  Append(SubSeq(raw, 1, k - 1), LF)
  ELSE IF raw[Len(raw)] = LF THEN raw
  ELSE Append(raw, LF)

\* the lines of `bytes', one after the other, as they are handed on
RECURSIVE HandedLines(_)
HandedLines(bytes) ==
  IF bytes = <<>> THEN <<>>
  ELSE HandedLine(getdelim(bytes, 0)) \o
       HandedLines(SubSeq(bytes, Len(getdelim(bytes, 0)) + 1, Len(bytes)))

(* C21: every line sudoers_input hands to the scanner ends in a newline and
   has no NUL: a line without a newline gets one, a line with a NUL is cut
   at its first NUL, which becomes the newline; the read offset never
   exceeds the line length; and the chunks returned, followed by what is
   left of the current line, are exactly the lines read so far. *)
C21_LinesHandedWhole ==
  /\ sudolinebuf.off <= sudolinebuf.len
  /\ sudolinebuf.len = Len(sudolinebuf.buf)
  /\ sudolinebuf.len > 0 =>
       /\ sudolinebuf.buf[sudolinebuf.len] = LF
       /\ \A i \in 1..sudolinebuf.len : sudolinebuf.buf[i] # NUL
  /\ yybuf \o SubSeq(sudolinebuf.buf, sudolinebuf.off + 1, sudolinebuf.len)
       = HandedLines(SubSeq(Bytes(fs, fh[cur].path), 1, fh[cur].pos))

\* the file is 'a' NUL 'a' newline 'a': the first line has been handed on
\* as 'a' newline, the second is read and its first chunk is in the scanner
C21_Witness ==
  /\ Bytes(fs, pM) = <<"a", NUL, "a", LF, "a">>
  /\ fh[cur].pos = 5
  /\ yybuf = <<"a", LF, "a">>
  /\ sudolinebuf.buf = <<"a", LF>>
  /\ sudolinebuf.off = 1

\* only the main file has been read: nothing is included and the parse has
\* not been begun again, so that the scanner's buffer holds what has been
\* read of the current source and nothing else
OnlyMainRead == first = <<>> /\ fs \notin IncludeScenarios

(* C31: the line number is 1 plus the number of line breaks consumed so
   far from the current source: each consumed line break, that of a
   directive line rejected with an error included, increments it exactly
   once (stated for the main file, before anything is included). *)
C31_LineNumberCountsBreaks ==
  (pc = "lex" /\ OnlyMainRead) =>
    sudolineno = 1 + LineBreaksIn(yy_c_buf_p - 1)

(* C32: immediately after the scanner returns a newline token, whether a
   line break or a comment produced it and in whatever start condition it
   was matched, the start condition is INITIAL and continued is false. *)
C32_NewlineEndsLine ==
  [][(RuleRuns /\ out' = Append(out, LF)) =>
       (yy_start' = "INITIAL" /\ ~continued')]_vars

(* --------------------------- do_syslog_sudo --------------------------- *)
\* unsigned arithmetic in size_t: a difference below zero wraps around to
\* the top of the range. size_t has 64 bits; 2^30 stands for 2^64 here,
\* every length of the model being far below either
size_t(n) == n % (2^30)

\* the two formats of do_syslog_sudo
FmtFirst == "%8s : %s"
FmtContinued == "%8s : (command continued) %s"

\* strlen(fmt)
strlen_fmt(f) == IF f = FmtFirst THEN 8 ELSE 28

\* evl_conf->syslog_maxlen - (strlen(fmt) - 5 + strlen(evlog->submituser))
MaxLenFor(f) ==
  size_t(evl_conf.syslog_maxlen - (strlen_fmt(f) - 5 + Len(evlog.submituser)))

\* memrchr(logline + from, ' ', n), as an offset into s: where the last
\* space among the n characters from `from' on is; -1 for NULL
memrchr(s, from, n) ==
  LET at == {i \in from..(from + n - 1) : s[i + 1] = SP}
  IN  IF at = {} THEN -1 ELSE CHOOSE i \in at : \A j \in at : j <= i

\* for (p = tmp; *p == ' '; p++): the offset of the first character from
\* `from' on that is no space
RECURSIVE SkipSpaces(_, _)
SkipSpaces(s, from) ==
  IF from < Len(s) /\ s[from + 1] = SP THEN SkipSpaces(s, from + 1) ELSE from

\* syslog(pri, f, evlog->submituser, p) with the string at p cut at `to'
syslog(f, from, to) ==
  syslogged' = Append(syslogged,
                      [fmt |-> f, at |-> from,
                       text |-> SubSeq(logline, from + 1, to)])

\* the most calls of syslog(3) followed for one log line
MaxMsgs == 8

\* do_syslog_sudo up to its loop: a line that belongs to no command is
\* logged as it is
do_syslog_sudo ==
  /\ syslog_pc = "open"
  /\ IF evlog = NoEvlog
     THEN /\ syslog("%s", 0, Len(logline))
          /\ syslog_pc' = "done"
          /\ UNCHANGED <<fmt, maxlen, p_off>>
     ELSE /\ fmt' = FmtFirst
          /\ maxlen' = MaxLenFor(FmtFirst)
          /\ p_off' = 0
          /\ syslog_pc' = "loop"
          /\ UNCHANGED syslogged
  /\ UNCHANGED <<evl_conf, evlog, logline>>
  /\ UNCHANGED notsysvars

\* one iteration of for (p = logline; *p != '\0'; )
SplitLine ==
  /\ syslog_pc = "loop"
  /\ p_off < Len(logline)
  /\ Len(syslogged) < MaxMsgs
  /\ LET len == Len(logline) - p_off
         sp == memrchr(logline, p_off, maxlen)
         tmp == IF sp = -1 THEN p_off + maxlen ELSE sp
     IN  IF len > maxlen
         THEN /\ syslog(fmt, p_off, tmp)
              /\ p_off' = SkipSpaces(logline, tmp)
         ELSE /\ syslog(fmt, p_off, Len(logline))
              /\ p_off' = p_off + len
  /\ fmt' = FmtContinued
  /\ maxlen' = MaxLenFor(FmtContinued)
  /\ UNCHANGED <<evl_conf, evlog, logline, syslog_pc>>
  /\ UNCHANGED notsysvars

\* *p is '\0': the loop is left, the log is closed
LoopEnds ==
  /\ syslog_pc = "loop"
  /\ p_off = Len(logline)
  /\ syslog_pc' = "done"
  /\ UNCHANGED <<evl_conf, evlog, logline, p_off, fmt, maxlen, syslogged>>
  /\ UNCHANGED notsysvars

\* the longest of the short log lines, and the largest syslog_maxlen
MaxLine == 3
MaxSyslogMaxlen == 33

\* log lines longer than the 20 characters the first part holds when
\* syslog_maxlen is the length of the prefix of the parts after it: one word, words of four letters, words parted by two spaces
LongLines ==
  { Copies("a", 21),
    <<"a", "a", "a", "a", SP, "a", "a", "a", "a", SP, "a", "a", "a", "a", SP,
      "a", "a", "a", "a", SP, "a", "a", "a", "a", SP, "a">>,
    Copies("a", 19) \o <<SP, SP, "a", "a", SP, "a">>,
    Copies("a", 20) \o <<SP, "a", SP, SP, "a", "a", "a">> }

\* the log lines, the users and the values of syslog_maxlen
LogLines == SeqsOf({"a", SP}, 1, MaxLine) \cup LongLines
SubmitUsers == {<<"u">>, Copies("u", 8), Copies("u", 9)}

\* the parser is not running
ParserIdle ==
  /\ fs = LexScenario(pM :> <<>>, {})
  /\ yybuf = <<>>
  /\ sudoers_strict = FALSE
  /\ LexerAtStart
  /\ pc = "idle"
  /\ arg = NoArg
  /\ idepth = 0
  /\ istacksize = 0
  /\ istack = <<>>
  /\ sudoers = pM
  /\ sudolineno = 1
  /\ sudolinebuf = ZeroLine
  /\ keepopen = FALSE
  /\ cur = 1
  /\ fh = <<MainHandle>>
  /\ tokens = <<>>
  /\ pre = <<>>
  /\ dir = NoDir
  /\ rdclosed = FALSE
  /\ perr = ""
  /\ rc = "balanced"

\* do_syslog_sudo is called with a line to log
InitSyslog ==
  /\ ParserIdle
  /\ evl_conf \in [type : {{"EVLOG_SYSLOG"}}, format : {"EVLOG_SUDO"},
                    syslog_maxlen : 0..MaxSyslogMaxlen]
  /\ args = [fn |-> "", flags |-> {}]
  /\ flags = {}
  /\ ev_pc = "return"
  /\ ev_ret = TRUE
  /\ mailed = 0
  /\ logfile = <<>>
  /\ NoCheck
  /\ NoWriter
  /\ evlog \in {NoEvlog} \cup [null : {FALSE}, submituser : SubmitUsers]
  /\ logline \in LogLines
  /\ p_off = 0
  /\ fmt = ""
  /\ maxlen = 0
  /\ syslog_pc = "open"
  /\ syslogged = <<>>

NextSyslog == do_syslog_sudo \/ SplitLine \/ LoopEnds

SpecSyslog == InitSyslog /\ [][NextSyslog]_vars

\* the length of what syslog(3) is given by a call: "%8s" is the user name
\* in eight columns at least, the rest of the format is copied, "%s" is the
\* text
Printed(m) ==
  (IF Len(evlog.submituser) < 8 THEN 8 ELSE Len(evlog.submituser))
    + (strlen_fmt(m.fmt) - 5) + Len(m.text)

\* the i-th message ends where the (i+1)-th begins, or the line ends, but
\* for spaces
SpacesOnly(from, to) == \A k \in (from + 1)..to : logline[k] = SP

InOrder ==
  /\ syslogged # <<>> => syslogged[1].at = 0
  /\ \A i \in 1..Len(syslogged) :
       LET m == syslogged[i]
           end == m.at + Len(m.text)
       IN  /\ m.text = SubSeq(logline, m.at + 1, end)
           /\ i < Len(syslogged) =>
                /\ end <= syslogged[i + 1].at
                /\ SpacesOnly(end, syslogged[i + 1].at)
           /\ (i = Len(syslogged) /\ syslog_pc = "done") =>
                SpacesOnly(end, Len(logline))

\* a part that is not the rest of the line ends at a space whenever the
\* first maxlen characters of what was left hold one
BreaksAtSpaces ==
  \A i \in 1..Len(syslogged) :
    LET m == syslogged[i]
        end == m.at + Len(m.text)
        max == MaxLenFor(m.fmt)
    IN  (Len(logline) - m.at > max
           /\ \E k \in (m.at + 1)..(m.at + max) : logline[k] = SP)
          => logline[end + 1] = SP

(* C34: do_syslog_sudo, for every log line and submitting user: each
   message passed to syslog(3), prefix included, is at most syslog_maxlen
   characters long; the parts are emitted in order and their texts, put
   together, are the log line but for spaces dropped where it was broken;
   and a break falls on a space whenever the first maxlen characters of
   what is left hold one. *)
C34_PartsFitAndRestoreLine ==
  ~evlog.null =>
    /\ \A i \in 1..Len(syslogged) :
         Printed(syslogged[i]) <= evl_conf.syslog_maxlen
    /\ InOrder
    /\ BreaksAtSpaces

(* C35: the splitting loop of do_syslog_sudo terminates for every log line
   that is not empty, every user name and every syslog_maxlen, those not
   larger than the prefix of a message included: each iteration advances
   the position in the line by one character at least. *)
C35_EachPartAdvances == [][SplitLine => p_off' > p_off]_vars

(* --------------- eventlog_accept, _reject, _alert, _exit -------------- *)
\* ISSET(t, f) and CLR(t, f) on flags that are one bit each
ISSET(t, f) == f \in t
CLR(t, f) == t \ {f}

\* the log file after a record has been added to it: a line in the sudo
\* format; in the JSON format the record inside the braces, in front of the
\* "\n}\n" that ends the file
Logged(file, format, rec) ==
  IF format = "EVLOG_SUDO" THEN Append(file, rec)
  ELSE IF file = <<>> THEN <<"{", rec, LF, "}", LF>>
  ELSE SubSeq(file, 1, Len(file) - 3) \o <<",", rec, LF, "}", LF>>

\* what do_syslog and do_logfile do before they log: the log line is made
\* for the sudo format and for mail, the event is mailed when EVLOG_MAIL is
\* set, and with EVLOG_MAIL_ONLY that is all. `line' is whether new_logline
\* returns a line. The result says whether send_mail is called and whether
\* the function returns here, and what
MailsFirst(fl, line) ==
  LET wanted == evl_conf.format = "EVLOG_SUDO" \/ ISSET(fl, "EVLOG_MAIL")
  IN  IF wanted /\ ~line
      THEN [mail |-> FALSE, returns |-> TRUE, ret |-> FALSE]
      ELSE [mail |-> wanted /\ ISSET(fl, "EVLOG_MAIL"),
            returns |-> wanted /\ ISSET(fl, "EVLOG_MAIL")
                          /\ ISSET(fl, "EVLOG_MAIL_ONLY"),
            ret |-> TRUE]

\* do_syslog(event_type, flags, &args, evlog): pri is the priority the
\* configuration has for the event type, -1 when syslog is disabled for
\* it; json is whether format_json returns a string
do_syslog(fl, line, pri, json) ==
  LET m == MailsFirst(fl, line)
      logs == ~m.returns /\ pri # -1
                /\ (evl_conf.format = "EVLOG_JSON" => json)
  IN  /\ mailed' = IF m.mail THEN mailed + 1 ELSE mailed
      /\ syslogged' =
           IF logs
           THEN Append(syslogged,
                       [fmt |-> IF evl_conf.format = "EVLOG_SUDO"
                                THEN FmtFirst ELSE "@cee", at |-> 0,
                        text |-> <<>>])
           ELSE syslogged
      /\ ev_ret' = IF m.returns THEN m.ret ELSE (pri = -1 \/ logs)

\* do_logfile(event_type, flags, &args, evlog): wrote is whether
\* do_logfile_sudo or do_logfile_json returns true, having written the
\* record
do_logfile(fl, line, wrote) ==
  LET m == MailsFirst(fl, line)
  IN  /\ mailed' = IF m.mail THEN mailed + 1 ELSE mailed
      /\ logfile' = IF ~m.returns /\ wrote
                    THEN Logged(logfile, evl_conf.format, args.fn)
                    ELSE logfile
      /\ ev_ret' = (ev_ret /\ IF m.returns THEN m.ret ELSE wrote)

\* if (ISSET(log_type, EVLOG_SYSLOG)) { if (!do_syslog(...)) ret = false;
\* CLR(flags, EVLOG_MAIL); }
LogsToSyslog ==
  /\ ev_pc = "syslog"
  /\ IF ISSET(evl_conf.type, "EVLOG_SYSLOG")
     THEN /\ \E line \in BOOLEAN, pri \in {-1, 1}, json \in BOOLEAN :
               do_syslog(flags, line, pri, json)
          /\ flags' = CLR(flags, "EVLOG_MAIL")
     ELSE UNCHANGED <<mailed, syslogged, ev_ret, flags>>
  /\ ev_pc' = "logfile"
  /\ UNCHANGED <<evl_conf, evlog, logline, p_off, fmt, maxlen, syslog_pc,
                 args, logfile>>
  /\ UNCHANGED notevvars

\* if (ISSET(log_type, EVLOG_FILE)) { if (!do_logfile(...)) ret = false; }
LogsToFile ==
  /\ ev_pc = "logfile"
  /\ IF ISSET(evl_conf.type, "EVLOG_FILE")
     THEN \E line \in BOOLEAN, wrote \in BOOLEAN :
            do_logfile(flags, line, wrote)
     ELSE UNCHANGED <<mailed, logfile, ev_ret>>
  /\ ev_pc' = "return"
  /\ UNCHANGED <<evl_conf, evlog, logline, p_off, fmt, maxlen, syslog_pc,
                 syslogged, args, flags>>
  /\ UNCHANGED notevvars

\* one of the four functions is called, with any flags, under any
\* configuration
InitEventlog ==
  /\ ParserIdle
  /\ evl_conf \in [type : SUBSET {"EVLOG_SYSLOG", "EVLOG_FILE"},
                    format : {"EVLOG_SUDO", "EVLOG_JSON"},
                    syslog_maxlen : {0}]
  /\ evlog \in [null : {FALSE}, submituser : {<<"u">>}]
  /\ logline = <<>>
  /\ p_off = 0
  /\ fmt = ""
  /\ maxlen = 0
  /\ syslog_pc = "done"
  /\ syslogged = <<>>
  /\ args \in [fn : {"eventlog_accept", "eventlog_reject", "eventlog_alert",
                     "eventlog_exit"},
               flags : SUBSET {"EVLOG_RAW", "EVLOG_MAIL", "EVLOG_MAIL_ONLY"}]
  /\ flags = args.flags
  /\ ev_pc = "syslog"
  /\ ev_ret = TRUE
  /\ mailed = 0
  /\ logfile = <<>>
  /\ NoCheck
  /\ NoWriter

NextEventlog == LogsToSyslog \/ LogsToFile

SpecEventlog == InitEventlog /\ [][NextEventlog]_vars

(* C33: with EVLOG_MAIL and EVLOG_MAIL_ONLY both in the flags,
   eventlog_accept, eventlog_reject, eventlog_alert and eventlog_exit mail
   the event and write nothing to syslog and nothing to the log file,
   whether the configuration logs to syslog, to a file or to both. *)
C33_MailOnlyLogsNothing ==
  (/\ ev_pc = "return"
   /\ evl_conf.type # {}
   /\ {"EVLOG_MAIL", "EVLOG_MAIL_ONLY"} \subseteq args.flags) =>
    /\ syslogged = <<>>
    /\ logfile = <<>>
    /\ ev_ret => mailed = 1

(* ------------------ do_logfile_sudo, do_logfile_json ------------------ *)
\* the most calls a process makes
MaxCalls == 2

\* the record the n-th call of process i logs: the line of do_logfile_sudo,
\* the string format_json returns
RecordOf(i, n) ==
  <<<<"r11", "r12", "r13", "r14">>, <<"r21", "r22", "r23", "r24">>>>[i][n]

\* a write of buf to a file that was not opened for appending, at offset
\* pos
Overwrite(file, pos, buf) ==
  SubSeq(file, 1, pos) \o buf \o SubSeq(file, pos + Len(buf) + 1, Len(file))

\* mutant: the offset is one byte short
fseeko_end_short(size, off) ==
  IF size + off + 1 < 0 THEN -1 ELSE size + off + 1

\* fseeko(fp, off, SEEK_END) on a file of `size' bytes: the new offset, -1
\* when it would be before the beginning of the file
fseeko_end(size, off) ==
  IF size + off < 0 THEN -1 ELSE size + off

\* process i goes to `label'
Goes(i, label) == lpc' = [lpc EXCEPT ![i] = label]

\* evl_conf->open_log(EVLOG_FILE, logfile): NULL, or a FILE at the
\* beginning of the log file; in the JSON format the file is not opened for
\* appending
open_log(i) ==
  /\ lpc[i] = "call"
  /\ \E ok \in BOOLEAN :
       IF ok
       THEN /\ fp' = [fp EXCEPT ![i] = [open |-> TRUE, pos |-> 0, buf |-> <<>>]]
            /\ opens' = [opens EXCEPT ![i] = opens[i] + 1]
            /\ Goes(i, IF evl_conf.format = "EVLOG_JSON" THEN "format"
                       ELSE "lock")
       ELSE /\ Goes(i, "return")
            /\ UNCHANGED <<fp, opens>>
  /\ UNCHANGED <<lock, sb, json_str, lf_ret, calls, closes, written, logfile,
                 evl_conf, evlog>>
  /\ UNCHANGED notfilevars

\* json_str = format_json(event_type, args, evlog, false)
format_json(i) ==
  /\ lpc[i] = "format"
  /\ \E ok \in BOOLEAN :
       IF ok
       THEN /\ json_str' = [json_str EXCEPT ![i] = RecordOf(i, calls[i])]
            /\ Goes(i, "lock")
       ELSE /\ Goes(i, "done")
            /\ UNCHANGED json_str
  /\ UNCHANGED <<lock, fp, sb, lf_ret, calls, opens, closes, written, logfile,
                 evl_conf, evlog>>
  /\ UNCHANGED notfilevars

\* mutant: the lock is not waited for
sudo_lock_file_nowait(i) ==
  /\ lpc[i] = "lock"
  /\ lock' = IF lock = 0 THEN i ELSE lock
  /\ Goes(i, IF evl_conf.format = "EVLOG_JSON" THEN "stat" ELSE "write")
  /\ UNCHANGED <<fp, sb, json_str, lf_ret, calls, opens, closes, written,
                 logfile, evl_conf, evlog>>
  /\ UNCHANGED notfilevars

\* sudo_lock_file(fileno(fp), SUDO_LOCK): waits for the lock and takes it,
\* or fails
sudo_lock_file(i) ==
  /\ lpc[i] = "lock"
  /\ \/ /\ lock = 0
        /\ lock' = i
        /\ Goes(i, IF evl_conf.format = "EVLOG_JSON" THEN "stat" ELSE "write")
     \/ /\ Goes(i, "done")
        /\ UNCHANGED lock
  /\ UNCHANGED <<fp, sb, json_str, lf_ret, calls, opens, closes, written,
                 logfile, evl_conf, evlog>>
  /\ UNCHANGED notfilevars

\* do_logfile_sudo: asprintf, eventlog_writeln, fflush, ferror. The file
\* is opened for appending; when asprintf fails or the stream has an error
\* nothing is taken to be written
WritesLine(i) ==
  /\ lpc[i] = "write"
  /\ evl_conf.format = "EVLOG_SUDO"
  /\ \E ok \in BOOLEAN :
       IF ok
       THEN /\ logfile' = Append(logfile, RecordOf(i, calls[i]))
            /\ written' = Append(written, RecordOf(i, calls[i]))
            /\ lf_ret' = [lf_ret EXCEPT ![i] = TRUE]
       ELSE UNCHANGED <<logfile, written, lf_ret>>
  /\ Goes(i, "done")
  /\ UNCHANGED <<lock, fp, sb, json_str, calls, opens, closes, evl_conf,
                 evlog>>
  /\ UNCHANGED notfilevars

\* fstat(fileno(fp), &sb)
fstat(i) ==
  /\ lpc[i] = "stat"
  /\ \E ok \in BOOLEAN :
       IF ok
       THEN /\ sb' = [sb EXCEPT ![i] = Len(logfile)]
            /\ Goes(i, "seek")
       ELSE /\ Goes(i, "done")
            /\ UNCHANGED sb
  /\ UNCHANGED <<lock, fp, json_str, lf_ret, calls, opens, closes, written,
                 logfile, evl_conf, evlog>>
  /\ UNCHANGED notfilevars

\* if (sb.st_size == 0) putc('{', fp); else if (fseeko(fp, -3, SEEK_END)
\* == 0) putc(',', fp); else goto done
PutsSeparator(i) ==
  /\ lpc[i] = "seek"
  /\ IF sb[i] = 0
     THEN /\ fp' = [fp EXCEPT ![i].buf = <<"{">>]
          /\ Goes(i, "write")
     ELSE \E ok \in BOOLEAN :
            IF ok /\ fseeko_end(Len(logfile), -3) # -1
            THEN /\ fp' = [fp EXCEPT ![i].pos = fseeko_end(Len(logfile), -3),
                                     ![i].buf = <<",">>]
                 /\ Goes(i, "write")
            ELSE /\ Goes(i, "done")
                 /\ UNCHANGED fp
  /\ UNCHANGED <<lock, sb, json_str, lf_ret, calls, opens, closes, written,
                 logfile, evl_conf, evlog>>
  /\ UNCHANGED notfilevars

\* fputs(json_str, fp); fputs("\n}\n", fp); fflush(fp); ret = true
WritesJson(i) ==
  /\ lpc[i] = "write"
  /\ evl_conf.format = "EVLOG_JSON"
  /\ logfile' = Overwrite(logfile, fp[i].pos,
                          fp[i].buf \o <<json_str[i], LF, "}", LF>>)
  /\ fp' = [fp EXCEPT ![i].pos = fp[i].pos + Len(fp[i].buf) + 4,
                      ![i].buf = <<>>]
  /\ written' = Append(written, json_str[i])
  /\ lf_ret' = [lf_ret EXCEPT ![i] = TRUE]
  /\ Goes(i, "done")
  /\ UNCHANGED <<lock, sb, json_str, calls, opens, closes, evl_conf, evlog>>
  /\ UNCHANGED notfilevars

\* done: free(json_str); (void)sudo_lock_file(fileno(fp), SUDO_UNLOCK)
Unlocks(i) ==
  /\ lpc[i] = "done"
  /\ lock' = IF lock = i THEN 0 ELSE lock
  /\ json_str' = [json_str EXCEPT ![i] = "NULL"]
  /\ Goes(i, "close")
  /\ UNCHANGED <<fp, sb, lf_ret, calls, opens, closes, written, logfile,
                 evl_conf, evlog>>
  /\ UNCHANGED notfilevars

\* evl_conf->close_log(EVLOG_FILE, fp): closing the file gives up a lock
\* the process still has on it
close_log(i) ==
  /\ lpc[i] = "close"
  /\ fp' = [fp EXCEPT ![i] = NoFile]
  /\ closes' = [closes EXCEPT ![i] = closes[i] + 1]
  /\ lock' = IF lock = i THEN 0 ELSE lock
  /\ Goes(i, "return")
  /\ UNCHANGED <<sb, json_str, lf_ret, calls, opens, written, logfile,
                 evl_conf, evlog>>
  /\ UNCHANGED notfilevars

\* the function has returned, and the process logs its next event
CallsAgain(i) ==
  /\ lpc[i] = "return"
  /\ calls[i] < MaxCalls
  /\ calls' = [calls EXCEPT ![i] = calls[i] + 1]
  /\ opens' = [opens EXCEPT ![i] = 0]
  /\ closes' = [closes EXCEPT ![i] = 0]
  /\ lf_ret' = [lf_ret EXCEPT ![i] = FALSE]
  /\ sb' = [sb EXCEPT ![i] = 0]
  /\ Goes(i, "call")
  /\ UNCHANGED <<lock, fp, json_str, written, logfile, evl_conf, evlog>>
  /\ UNCHANGED notfilevars

\* the log file is empty and every process logs its first event
InitLogfile ==
  /\ ParserIdle
  /\ evl_conf \in [type : {{"EVLOG_FILE"}},
                    format : {"EVLOG_SUDO", "EVLOG_JSON"},
                    syslog_maxlen : {0}]
  /\ evlog = [null |-> FALSE, submituser |-> <<"u">>]
  /\ logline = <<>>
  /\ p_off = 0
  /\ fmt = ""
  /\ maxlen = 0
  /\ syslog_pc = "done"
  /\ syslogged = <<>>
  /\ args = [fn |-> "", flags |-> {}]
  /\ flags = {}
  /\ ev_pc = "return"
  /\ ev_ret = TRUE
  /\ mailed = 0
  /\ logfile = <<>>
  /\ NoCheck
  /\ lock = 0
  /\ lpc = [i \in Procs |-> "call"]
  /\ fp = [i \in Procs |-> NoFile]
  /\ sb = [i \in Procs |-> 0]
  /\ json_str = [i \in Procs |-> "NULL"]
  /\ lf_ret = [i \in Procs |-> FALSE]
  /\ calls = [i \in Procs |-> 1]
  /\ opens = [i \in Procs |-> 0]
  /\ closes = [i \in Procs |-> 0]
  /\ written = <<>>

NextLogfile ==
  \E i \in Procs :
    \/ open_log(i) \/ format_json(i) \/ sudo_lock_file(i) \/ WritesLine(i)
    \/ fstat(i) \/ PutsSeparator(i) \/ WritesJson(i) \/ Unlocks(i)
    \/ close_log(i) \/ CallsAgain(i)

SpecLogfile == InitLogfile /\ [][NextLogfile]_vars

\* the records, with a ',' between one and the next
RECURSIVE Separated(_)
Separated(recs) ==
  IF Len(recs) <= 1 THEN recs
  ELSE <<recs[1], ",">> \o Separated(Tail(recs))

\* the JSON log file that holds the records recs: nothing when there is
\* none, else '{', the records, and the trailer "\n}\n"
JsonFile(recs) ==
  IF recs = <<>> THEN <<>>
  ELSE <<"{">> \o Separated(recs) \o <<LF, "}", LF>>

\* the call process i is in, or has returned from, has its record in the
\* log
HasLogged(i) == \E k \in 1..Len(written) : written[k] = RecordOf(i, calls[i])

(* C36: starting from an empty log file, after any sequence of
   do_logfile_json calls the file is empty or it is '{', the records of
   the calls that returned true, in the order of the calls, with ','
   between them, and the trailer "\n}\n"; a call that fails, because
   open_log, format_json, the lock, fstat or fseeko failed, leaves the
   file as it was. *)
C36_JsonFileWellFormed ==
  evl_conf.format = "EVLOG_JSON" =>
    /\ logfile = JsonFile(written)
    /\ \A i \in Procs : lpc[i] = "return" => (lf_ret[i] <=> HasLogged(i))

\* the first call of process 1 and the second call of process 2 have
\* logged, the other two calls have failed
C36_Witness ==
  /\ evl_conf.format = "EVLOG_JSON"
  /\ logfile = <<"{", "r11", ",", "r22", LF, "}", LF>>
  /\ \A i \in Procs : lpc[i] = "return" /\ calls[i] = 2
  /\ ~lf_ret[1]
  /\ lf_ret[2]

\* the log file holds whole records, those written and no others
RecordsWhole ==
  logfile = IF evl_conf.format = "EVLOG_JSON" THEN JsonFile(written)
            ELSE written

(* C37: with several processes logging to the same file, every write to
   the log file, in the sudo and in the JSON format, and the size check
   and the seek before a JSON write, happens while the writer holds the
   lock on the file; on every path after open_log has returned a FILE the
   lock is released and close_log is called exactly once; so the records
   of different processes never interleave. *)
C37_WritesUnderLock ==
  /\ [](\A i \in Procs :
          /\ closes[i] <= opens[i]
          /\ lpc[i] \in {"call", "return"} =>
               (closes[i] = opens[i] /\ lock # i /\ ~fp[i].open))
  /\ []RecordsWhole
  /\ [][\A i \in Procs :
          (WritesLine(i) \/ fstat(i) \/ PutsSeparator(i) \/ WritesJson(i))
            => lock = i]_vars

\* process 1 has the lock and is about to seek to the end of a log file
\* that holds a record already, while process 2 waits for the lock
C37_Witness ==
  /\ evl_conf.format = "EVLOG_JSON"
  /\ lock = 1
  /\ lpc[1] = "seek"
  /\ lpc[2] = "lock"
  /\ written = <<"r21">>

(***************************************************************************)
(* check_user: whether the user authenticates, and the time stamp record.  *)
(* timestamp_open, timestamp_lock, timestamp_status, timestamp_update,     *)
(* timestamp_close, get_authpw, sudo_auth_init, verify_user and            *)
(* sudo_auth_approval are called here and defined elsewhere: each is the   *)
(* choice among its results.  The cookie is NoCookie when NULL, and        *)
(* otherwise says whether this process holds the lock of the record.       *)
(***************************************************************************)

\* what timestamp_status returns
TStats == {"TS_CURRENT", "TS_OLD", "TS_MISSING", "TS_ERROR", "TS_FATAL"}

\* what verify_user and sudo_auth_approval return: true, false, or -1
AuthResults == {1, 0, -1}

\* timestamp_open(user_name, user_sid), and timestamp_lock of what it
\* returned when that is not NULL
timestamp_open(can_open, can_lock) ==
  IF can_open THEN [null |-> FALSE, locked |-> can_lock] ELSE NoCookie

\* ISSET(sudo_mode, MODE_POLICY_INTERCEPTED) and !def_intercept_authenticate
InterceptUnchecked ==
  /\ ISSET(sudo_mode, "MODE_POLICY_INTERCEPTED")
  /\ ~sudo_defs.intercept_authenticate

\* check_user, to the call of check_user_interactive or to the done label
check_user ==
  /\ cu_pc = "call"
  /\ IF InterceptUnchecked
       THEN /\ cu_ret' = 1
            /\ cu_pc' = "returned"
            /\ UNCHANGED <<exempt, auth_initd, how>>
       ELSE \E has_authpw, auth_inits \in BOOLEAN :
              /\ auth_initd' = has_authpw
              /\ IF ~has_authpw \/ ~auth_inits
                   THEN /\ cu_pc' = "done"
                        /\ UNCHANGED <<cu_ret, exempt, how>>
                   ELSE IF ~sudo_defs.authenticate \/ sudo_user.is_exempt
                   THEN /\ exempt' = TRUE
                        /\ cu_ret' = 1
                        /\ how' = "exempt"
                        /\ cu_pc' = "done"
                   ELSE IF sudo_user.as_self
                   THEN /\ cu_ret' = 1
                        /\ how' = "self"
                        /\ cu_pc' = "done"
                        /\ UNCHANGED exempt
                   ELSE /\ cu_pc' = "interactive"
                        /\ UNCHANGED <<cu_ret, exempt, how>>
  /\ UNCHANGED <<validated, mode, sudo_mode, sudo_defs, sudo_user, closure,
                 suspended, resumed, approvals, ts_called, updates>>
  /\ UNCHANGED notauthvars

\* check_user_interactive, to the call of verify_user or to its return
check_user_interactive ==
  /\ cu_pc = "interactive"
  /\ \E can_open, can_lock, has_prompt \in BOOLEAN, status \in TStats :
       LET uses == ~ISSET(mode, "MODE_IGNORE_TICKET")
           cookie == IF uses THEN timestamp_open(can_open, can_lock)
                             ELSE closure.cookie
           tstat == IF uses /\ ~cookie.null /\ cookie.locked
                      THEN status ELSE closure.tstat
       IN  /\ closure' = [tstat |-> tstat, cookie |-> cookie]
           /\ ts_called' =
                ts_called
                  \cup (IF uses THEN {"timestamp_open"} ELSE {})
                  \cup (IF uses /\ ~cookie.null
                          THEN {"timestamp_lock"} ELSE {})
                  \cup (IF uses /\ ~cookie.null /\ cookie.locked
                          THEN {"timestamp_status"} ELSE {})
           /\ IF tstat = "TS_FATAL"
                THEN /\ cu_pc' = "done"
                     /\ UNCHANGED <<cu_ret, how>>
                ELSE IF tstat = "TS_CURRENT"
                        /\ ~ISSET(validated, "FLAG_CHECK_USER")
                THEN /\ cu_ret' = 1
                     /\ how' = "ticket"
                     /\ cu_pc' = "done"
                ELSE IF ISSET(mode, "MODE_NONINTERACTIVE")
                        /\ ~sudo_defs.noninteractive_auth
                THEN /\ cu_pc' = "done"
                     /\ UNCHANGED <<cu_ret, how>>
                ELSE /\ cu_pc' = IF has_prompt THEN "verify_user" ELSE "done"
                     /\ UNCHANGED <<cu_ret, how>>
  /\ UNCHANGED <<validated, mode, sudo_mode, sudo_defs, sudo_user, exempt,
                 suspended, resumed, auth_initd, approvals, updates>>
  /\ UNCHANGED notauthvars

\* getpass_suspend: the prompt is suspended
getpass_suspend ==
  /\ cu_pc = "verify_user"
  /\ ~suspended
  /\ closure' = [closure EXCEPT !.cookie = NoCookie]
  /\ ts_called' = ts_called \cup {"timestamp_close"}
  /\ suspended' = TRUE
  /\ UNCHANGED <<validated, mode, sudo_mode, sudo_defs, sudo_user, cu_ret,
                 exempt, cu_pc, resumed, auth_initd, how, approvals,
                 updates>>
  /\ UNCHANGED notauthvars

\* getpass_resume: the prompt is resumed
getpass_resume ==
  /\ cu_pc = "verify_user"
  /\ suspended
  /\ \E can_open, can_lock \in BOOLEAN :
       LET cookie == timestamp_open(can_open, can_lock)
       IN  /\ closure' = [closure EXCEPT !.cookie = cookie]
           /\ ts_called' =
                ts_called \cup {"timestamp_open"}
                  \cup (IF cookie.null THEN {} ELSE {"timestamp_lock"})
           /\ resumed' = IF cookie.null \/ ~cookie.locked THEN -1 ELSE 0
  /\ suspended' = FALSE
  /\ UNCHANGED <<validated, mode, sudo_mode, sudo_defs, sudo_user, cu_ret,
                 exempt, cu_pc, auth_initd, how, approvals, updates>>
  /\ UNCHANGED notauthvars

\* ret = verify_user(...); break; done: debug_return_int(ret), and
\* ret = check_user_interactive(validated, mode, &closure)
verify_user ==
  /\ cu_pc = "verify_user"
  /\ ~suspended
  /\ \E r \in AuthResults :
       /\ cu_ret' = r
       /\ how' = IF r = 1 THEN "password" ELSE how
  /\ cu_pc' = "done"
  /\ UNCHANGED <<validated, mode, sudo_mode, sudo_defs, sudo_user, closure,
                 exempt, suspended, resumed, auth_initd, approvals,
                 ts_called, updates>>
  /\ UNCHANGED notauthvars

\* approval asked only of a user who gave a password
AsksApproval_password == cu_ret = 1 /\ how = "password"

\* if (ret == true): sudo_auth_approval is asked
AsksApproval == cu_ret = 1

\* the time stamp updated whatever its status
UpdatesTicket_anystatus(a) ==
  /\ a = 1
  /\ ISSET(validated, "VALIDATE_SUCCESS")
  /\ ISSET(mode, "MODE_UPDATE_TICKET")

\* whether check_user calls timestamp_update when sudo_auth_approval has
\* returned a
UpdatesTicket(a) ==
  /\ a = 1
  /\ ISSET(validated, "VALIDATE_SUCCESS")
  /\ ISSET(mode, "MODE_UPDATE_TICKET")
  /\ closure.tstat # "TS_ERROR"

\* check_user from the done label to its return
check_user_done ==
  /\ cu_pc = "done"
  /\ IF AsksApproval
       THEN \E a \in AuthResults :
              /\ cu_ret' = a
              /\ approvals' = Append(approvals, a)
              /\ updates' = IF UpdatesTicket(a)
                              THEN Append(updates, closure.cookie)
                              ELSE updates
              /\ ts_called' =
                   ts_called \cup {"timestamp_close"}
                     \cup (IF UpdatesTicket(a)
                             THEN {"timestamp_update"} ELSE {})
       ELSE /\ ts_called' = ts_called \cup {"timestamp_close"}
            /\ UNCHANGED <<cu_ret, approvals, updates>>
  /\ closure' = [closure EXCEPT !.cookie = NoCookie]
  /\ cu_pc' = "returned"
  /\ UNCHANGED <<validated, mode, sudo_mode, sudo_defs, sudo_user, exempt,
                 suspended, resumed, auth_initd, how>>
  /\ UNCHANGED notauthvars

\* check_user is called
InitAuth ==
  /\ ParserIdle
  /\ NoEvent
  /\ validated \in SUBSET {"VALIDATE_SUCCESS", "FLAG_CHECK_USER"}
  /\ mode \in SUBSET {"MODE_NONINTERACTIVE", "MODE_IGNORE_TICKET",
                      "MODE_UPDATE_TICKET"}
  /\ sudo_mode \in SUBSET {"MODE_POLICY_INTERCEPTED"}
  /\ sudo_defs \in [intercept_authenticate : BOOLEAN, authenticate : BOOLEAN,
                     noninteractive_auth : BOOLEAN]
  /\ sudo_user \in [is_exempt : BOOLEAN, as_self : BOOLEAN]
  /\ closure = [tstat |-> "TS_ERROR", cookie |-> NoCookie]
  /\ cu_ret = -1
  /\ exempt = FALSE
  /\ cu_pc = "call"
  /\ suspended = FALSE
  /\ resumed = 0
  /\ auth_initd = FALSE
  /\ how = ""
  /\ approvals = <<>>
  /\ ts_called = {}
  /\ updates = <<>>

NextAuth ==
  \/ check_user
  \/ check_user_interactive
  \/ getpass_suspend
  \/ getpass_resume
  \/ verify_user
  \/ check_user_done

SpecAuth == InitAuth /\ [][NextAuth]_vars

(* C38: check_user calls timestamp_update only if, in that call,
   authentication yielded true, sudo_auth_approval returned true, validated
   contains VALIDATE_SUCCESS, mode contains MODE_UPDATE_TICKET and the time
   stamp status is not TS_ERROR; never when MODE_IGNORE_TICKET is set, when
   the user was exempt or ran the command as themselves, or when
   authentication or approval failed. *)
C38_UpdateOnlyWhenEarned ==
  updates # <<>> =>
    /\ how \in {"ticket", "password"}
    /\ approvals = <<1>>
    /\ cu_ret = 1
    /\ ISSET(validated, "VALIDATE_SUCCESS")
    /\ ISSET(mode, "MODE_UPDATE_TICKET")
    /\ closure.tstat # "TS_ERROR"
    /\ ~ISSET(mode, "MODE_IGNORE_TICKET")
    /\ ~exempt
    /\ Len(updates) = 1

C38_Witness ==
  /\ cu_pc = "returned"
  /\ updates # <<>>
  /\ how = "password"
  /\ closure.tstat = "TS_OLD"

(* C39: timestamp_update is only ever called with a cookie that is open and
   locked by this process, whatever suspend and resume callbacks ran during
   the password prompt and whether or not a resume failed to open or to
   lock the record; and the lock is not held while the prompt is
   suspended. *)
C39_UpdateThroughLockedCookie ==
  /\ \A i \in DOMAIN updates : ~updates[i].null /\ updates[i].locked
  /\ suspended => ~closure.cookie.locked

(* C40: check_user returns true only if sudo_auth_approval returned true in
   that call, however the user authenticated; except in intercepted-policy
   mode with intercept_authenticate disabled, where it returns true at once
   without initialising authentication, asking for approval or touching the
   time stamp. *)
C40_TrueOnlyWhenApproved ==
  cu_pc = "returned" =>
    IF InterceptUnchecked
      THEN /\ cu_ret = 1
           /\ ~auth_initd
           /\ approvals = <<>>
           /\ ts_called = {}
           /\ updates = <<>>
      ELSE cu_ret = 1 => (approvals = <<1>> /\ auth_initd)

C40_Witness ==
  /\ cu_pc = "returned"
  /\ cu_ret = 1
  /\ how = "exempt"
  /\ approvals = <<1>>
  /\ ~InterceptUnchecked

=========================================================================
